---- MODULE Spec2Model ----
(***************************************************************************)
(* Verification model of the ai-cloud-storage frontend glue code:          *)
(*   - the Next.js API proxy route handlers GET / POST / DELETE            *)
(*   - the axios clients (lib/api.ts, lib/api-client.ts) and the auth     *)
(*     providers / pages                                                   *)
(*   - the chunked FileUploader (lib/utils/upload.ts)                      *)
(*   - the zustand file store (store/useStore.ts)                          *)
(*   - the documented RateLimiter (middleware/rate_limit.py)               *)
(* Each subsystem has its own specification (SpecProxy, ...); the          *)
(* variables of the other subsystems stay at their initial values.         *)
(***************************************************************************)
EXTENDS Integers, Sequences, FiniteSets, TLC

VARIABLES
    \* ---- API proxy (route handlers GET / POST / DELETE) ----
    pxPc,          \* "idle" | "fetching" | "done": position of the handler
    pxReq,         \* the incoming NextRequest
    pxFetch,       \* the request the handler sent to the backend (or NoFetch)
    pxBackend,     \* what the backend answered (or NoAnswer)
    pxResp,        \* the NextResponse returned to the client (or NoResp)
    \* ---- browser session: axios clients, auth providers, pages ----
    localStorage,  \* window.localStorage: key -> value (Null: no such item)
    user,          \* AuthProvider.user of contexts/AuthContext (Null: null)
    featUser,      \* AuthProvider.user of components/features/auth/AuthContext
    location,      \* the page the browser is on (router.push / window.location)
    accounts,      \* backend: the registered <<email, password>> pairs
    call,          \* the HTTP call in flight (NoCall: none)
    settled,       \* history: the HTTP call that settled last
    session,       \* history: access token of the latest successful login,
                   \* Null once a logout or a 401 handler cleared the token
    \* ---- FileUploader (lib/utils/upload.ts) and the storage server ----
    upFile,        \* this.file: the bytes of the file
    upChunkOpt,    \* options.chunkSize as given by the caller (0: not given)
    upPc,          \* position of start(): "constructed", "single:config", ...
    upUploadId,    \* this.uploadId (Null: undefined)
    upParts,       \* this.parts: [part_number, etag] in the order pushed
    upChunks,      \* uploadedChunks
    upPartPc,      \* state of every uploadPart promise, by chunk index
    upAborted,     \* abortController.signal.aborted
    upCompleteReq, \* the parts list sent with completeMultipartUpload
    upAbortReq,    \* history: where start() was when abort() was called, and
                   \* the upload id sent with abortMultipartUpload (Null: not sent)
    upCallbacks,   \* how often onComplete / onError were called
    srvParts,      \* server: bytes stored under each part number
    srvUpload,     \* server: "none" | "open" | "completed" | "aborted"
    srvObject,     \* server: the object under (bucket, key), NoObject if none
    \* ---- file store (store/useStore.ts), useFiles hook, document server ----
    stFiles,       \* useStore: files, as the listing [path, docs] received
    stCurrentPath, \* useStore: currentPath
    stIsLoading,   \* useStore: isLoading
    stError,       \* useStore: error
    ops,           \* the calls of store / hook functions, by call number
    qData,         \* useFiles: data of the ['files', bucket] query
    qFetch,        \* useFiles: the fetch of that query (pc "idle": none)
    srvDocs,       \* server: the ids of the documents stored
    \* ---- RateLimiter (middleware/rate_limit.py) and its redis key ----
    rlCount,       \* redis: value of rate_limit:<client_id> (0: no such key)
    rlTtl,         \* redis: seconds until the key expires (0: no key)
    rlPc,          \* per worker: "idle", or "passed" between GET and the pipeline
    rlLast,        \* per worker: outcome of its last check, 200 or 429
    rlWinAge,      \* history: seconds since the first admitted request of the window
    rlWinCount,    \* history: requests admitted in that window
    \* ---- the PostgreSQL database that db/init.sql initialises ----
    dbPc,          \* the statement of init.sql that psql runs next
    permissions,   \* table permissions: rows [id, name]
    roles,         \* table roles: rows [id, name]
    role_permissions, \* table role_permissions: <<role_id, permission_id>>
    users,         \* table users: rows [id, email, username, is_superuser]
    user_roles,    \* table user_roles: <<user_id, role_id>>
    ai_jobs,       \* table ai_jobs: rows [id, status], with their history
    \* ---- the Next.js middleware (src/middleware.ts) and the browser ----
    cookieToken,   \* the browser's cookie 'token' (NoCookie: no such cookie)
    mwPc,          \* "requested": the page at location is being requested,
                   \* "served": the middleware let it through
    mwReq,         \* the request the middleware handled last
    mwResp,        \* the response of the middleware to it
    mwAfter401,    \* history: the 401 handler of lib/api.ts sent the browser
                   \* to /login and the user has not logged in since
    \* ---- AuthProvider of contexts/AuthContext: the effect run on mount ----
    authCheck      \* checkAuth(): "sent" while getCurrentUser is in flight, "done"

pxVars == <<pxPc, pxReq, pxFetch, pxBackend, pxResp>>
auVars == <<localStorage, user, featUser, location, accounts, call, settled, session>>

upVars == <<upFile, upChunkOpt, upPc, upUploadId, upParts, upChunks, upPartPc,
            upAborted, upCompleteReq, upAbortReq, upCallbacks, srvParts, srvUpload,
            srvObject>>

stVars == <<stFiles, stCurrentPath, stIsLoading, stError, ops, qData, qFetch, srvDocs>>

rlVars == <<rlCount, rlTtl, rlPc, rlLast, rlWinAge, rlWinCount>>

dbVars == <<dbPc, permissions, roles, role_permissions, users, user_roles, ai_jobs>>

mwVars == <<cookieToken, mwPc, mwReq, mwResp, mwAfter401>>

ckVars == <<authCheck>>

VARIABLES
    \* ---- useApi hooks and the components that await execute() ----
    hooks,        \* component -> the hook's state {data, loading, error}
    hkCall,       \* component -> the call of execute() the component made last
    hkCalls,      \* component -> how many calls the component has made
    documents,    \* useDocumentStore: documents
    messages      \* Chat: messages
hkVars == <<hooks, hkCall, hkCalls, documents, messages>>

VARIABLES
    \* ---- FileUploader (deduplicating uploader): onDrop ----
    dzPc,         \* where onDrop is: idle, awaiting, answered, ended
    dzFiles,      \* acceptedFiles of the drop being handled
    dzIdx,        \* the for loop's position in acceptedFiles
    dzReply,      \* how the last storageApi.uploadFile call settled
    dzAttempts,   \* the files of this drop posted so far, in order
    dzOutcomes,   \* how the settled uploads of this drop ended, in order
    dzInFlight,   \* uploads posted and not yet answered
    dzCompleted,  \* calls of onUploadComplete for this drop
    dzDrops,      \* drops handled so far
    dzToast,      \* the toast shown last
    uploading,    \* useState(false)
    progress,     \* useState(0)
    srvUploads    \* the files the server has stored, in order
dzVars == <<dzPc, dzFiles, dzIdx, dzReply, dzAttempts, dzOutcomes, dzInFlight,
            dzCompleted, dzDrops, dzToast, uploading, progress, srvUploads>>

VARIABLES
    \* ---- retryRequest of the load test ----
    rrPc,         \* idle, while, returned, thrown
    rrMax,        \* maxRetries
    retries,      \* let retries
    lastError,    \* let lastError
    rrLog,        \* what the calls of requestFn did, in order
    rrResult,     \* what retryRequest returned or threw
    rrSleeps      \* calls of sleep(1)
rrVars == <<rrPc, rrMax, retries, lastError, rrLog, rrResult, rrSleeps>>

vars == <<pxVars, auVars, upVars, stVars, rlVars, dbVars, mwVars, ckVars, hkVars, dzVars, rrVars>>

(***************************************************************************)
(* Strings are sequences of tokens; "/" is a token of its own.             *)
(***************************************************************************)
RECURSIVE IndexOf(_, _, _)
\* String.prototype.indexOf: first i >= from with s[i..] starting with pat, 0 if none
IndexOf(s, pat, from) ==
    IF from + Len(pat) - 1 > Len(s) THEN 0
    ELSE IF SubSeq(s, from, from + Len(pat) - 1) = pat THEN from
    ELSE IndexOf(s, pat, from + 1)

\* String.prototype.replace with a string pattern: only the FIRST occurrence
ReplaceFirst(s, pat, rep) ==
    LET i == IndexOf(s, pat, 1)
    IN  IF i = 0 THEN s
        ELSE SubSeq(s, 1, i - 1) \o rep \o SubSeq(s, i + Len(pat), Len(s))

\* URLSearchParams: the raw query is a list of items, <<k>> ("k" without '=')
\* or <<k, v>> ("k=v"); parsing yields name/value pairs
ParseQuery(raw) ==
    [i \in 1..Len(raw) |-> IF Len(raw[i]) = 1 THEN <<raw[i][1], "">> ELSE raw[i]]

\* URLSearchParams.toString(): every pair is written back as "k=v"
SearchParamsToString(raw) == ParseQuery(raw)

(***************************************************************************)
(* JSON.  A body travels as text; an object is a set of <<path, scalar>>.  *)
(***************************************************************************)
SyntaxError == {<< <<"SyntaxError">>, "thrown" >>}

JsonData     == {<< <<"data">>, "d1" >>}
JsonEnvelope == {<< <<"error", "code">>, "NOT_FOUND" >>,
                 << <<"error", "message">>, "Resource not found" >>,
                 << <<"error", "details">>, "none" >>}
JsonDetail   == {<< <<"detail">>, "Not authenticated" >>}

\* Response.json() / Request.json(): parse the text or throw
JSONparse(text) ==
    CASE text = "{data}"        -> JsonData
      [] text = "{ data }"      -> JsonData
      [] text = "{error:{...}}" -> JsonEnvelope
      [] text = "{detail}"      -> JsonDetail
      [] OTHER                  -> SyntaxError

\* JSON.stringify: the canonical text of an object
JSONstringify(obj) ==
    CASE obj = JsonData     -> "{data}"
      [] obj = JsonEnvelope -> "{error:{...}}"
      [] obj = JsonDetail   -> "{detail}"
      [] OTHER              -> "null"

\* the documented error format {error: {code, message, details}}
IsErrorEnvelope(obj) ==
    {e[1] : e \in obj} =
        {<<"error", "code">>, <<"error", "message">>, <<"error", "details">>}

(***************************************************************************)
(* API proxy                                                               *)
(***************************************************************************)
API_URL == "http://localhost:8000"

NoHeader == "<absent>"
NoFetch  == [method |-> "none", url |-> <<>>, search |-> <<>>,
             auth |-> NoHeader, body |-> ""]
NoAnswer == [kind |-> "none", status |-> 0, text |-> ""]
NoResp   == [status |-> 0, body |-> {}]
NoReq    == [method |-> "none", pathname |-> <<>>, query |-> <<>>,
             auth |-> NoHeader, body |-> ""]

\* the part of the pathname after /api/
Rests == { <<"files">>,
           <<"files", "/", "f1">>,
           <<"auth", "/", "api", "/", "keys">> }

Queries == { <<>>, << <<"bucket", "b1">> >>, << <<"force">> >> }

\* Authorization header of the incoming request (NoHeader: none at all)
AuthHeaders == {NoHeader, "", "Bearer t1", "Bearer t2"}

ReqBodies == {"{data}", "{ data }", "not json"}

BackendStatuses == {200, 201, 204, 400, 401, 404, 500}
BackendTexts == {"{data}", "{error:{...}}", "{detail}", "<html>", ""}

\* Response.ok
Ok(status) == status >= 200 /\ status <= 299

ErrorMessage(answer) ==
    IF answer.kind = "network" THEN "fetch failed" ELSE "Unexpected token"

\* the catch branch of every handler
InternalServerError(msg) ==
    [status |-> 500,
     body |-> {<< <<"error">>, "Internal Server Error" >>, << <<"details">>, msg >>}]

\* NextResponse.json(data): status 200 unless an init is given
NextResponseJson(data, status) == [status |-> status, body |-> data]

\* headers: {'Content-Type': ..., ...(request.headers.get('Authorization') ? {...} : {})}
\* mutation: the Authorization header is never forwarded
ForwardedAuth_dropped(h) == NoHeader

ForwardedAuth(h) == IF h # NoHeader /\ h # "" THEN h ELSE NoHeader

ProxyPath(pathname) ==
    <<API_URL, "/", "api", "/", "v1", "/">> \o ReplaceFirst(pathname, <<"/", "api", "/">>, <<>>)

\* a client request arrives at the route
Arrive(method) ==
    /\ pxPc = "idle"
    /\ \E rest \in Rests, q \in Queries, a \in AuthHeaders, b \in ReqBodies :
         pxReq' = [method |-> method, pathname |-> <<"/", "api", "/">> \o rest,
                   query |-> q, auth |-> a,
                   body |-> IF method = "POST" THEN b ELSE ""]

GETrequest ==
    /\ Arrive("GET")
    /\ pxFetch' = [method |-> "GET", url |-> ProxyPath(pxReq'.pathname),
                   search |-> SearchParamsToString(pxReq'.query),
                   auth |-> ForwardedAuth(pxReq'.auth), body |-> ""]
    /\ pxPc' = "fetching"
    /\ pxBackend' = NoAnswer
    /\ pxResp' = NoResp

POSTrequest ==
    /\ Arrive("POST")
    /\ pxBackend' = NoAnswer
    /\ IF JSONparse(pxReq'.body) = SyntaxError
       THEN /\ pxFetch' = NoFetch
            /\ pxResp' = InternalServerError("Unexpected token")
            /\ pxPc' = "done"
       ELSE /\ pxFetch' = [method |-> "POST", url |-> ProxyPath(pxReq'.pathname),
                           search |-> <<>>,
                           auth |-> ForwardedAuth(pxReq'.auth),
                           body |-> JSONstringify(JSONparse(pxReq'.body))]
            /\ pxResp' = NoResp
            /\ pxPc' = "fetching"

DELETErequest ==
    /\ Arrive("DELETE")
    /\ pxFetch' = [method |-> "DELETE", url |-> ProxyPath(pxReq'.pathname),
                   search |-> <<>>,
                   auth |-> ForwardedAuth(pxReq'.auth), body |-> ""]
    /\ pxPc' = "fetching"
    /\ pxBackend' = NoAnswer
    /\ pxResp' = NoResp

\* the backend answers the fetch, or the fetch fails
Answers ==
    {[kind |-> "network", status |-> 0, text |-> ""]} \cup
    [kind : {"http"}, status : BackendStatuses, text : BackendTexts]

Answered(method) ==
    /\ pxPc = "fetching"
    /\ pxReq.method = method
    /\ \E ans \in Answers :
         /\ ans.status = 204 => ans.text = ""
         /\ pxBackend' = ans
    /\ pxPc' = "done"
    /\ UNCHANGED <<pxReq, pxFetch>>

GETresponse ==
    /\ Answered("GET")
    /\ pxResp' =
         IF pxBackend'.kind = "network" \/ JSONparse(pxBackend'.text) = SyntaxError
         THEN InternalServerError(ErrorMessage(pxBackend'))
         ELSE NextResponseJson(JSONparse(pxBackend'.text), 200)

POSTresponse ==
    /\ Answered("POST")
    /\ pxResp' =
         IF pxBackend'.kind = "network"
         THEN InternalServerError(ErrorMessage(pxBackend'))
         ELSE IF ~Ok(pxBackend'.status)
         THEN NextResponseJson({<< <<"error">>, "Backend Error" >>,
                                << <<"details">>, pxBackend'.text >>},
                               pxBackend'.status)
         ELSE IF JSONparse(pxBackend'.text) = SyntaxError
         THEN InternalServerError(ErrorMessage(pxBackend'))
         ELSE NextResponseJson(JSONparse(pxBackend'.text), 200)

DELETEresponse ==
    /\ Answered("DELETE")
    /\ pxResp' =
         IF pxBackend'.kind = "network"
         THEN InternalServerError(ErrorMessage(pxBackend'))
         ELSE IF pxBackend'.status = 204
         THEN [status |-> 204, body |-> {}]
         ELSE IF JSONparse(pxBackend'.text) = SyntaxError
         THEN InternalServerError(ErrorMessage(pxBackend'))
         ELSE NextResponseJson(JSONparse(pxBackend'.text), 200)

\* the response has been sent; the route is ready for the next request
ProxyReturn ==
    /\ pxPc = "done"
    /\ pxPc' = "idle"
    /\ UNCHANGED <<pxReq, pxFetch, pxBackend, pxResp>>

GET    == GETrequest \/ GETresponse
POST   == POSTrequest \/ POSTresponse
DELETE == DELETErequest \/ DELETEresponse

(***************************************************************************)
(* Browser session: lib/api.ts, lib/api-client.ts, services/auth.ts,       *)
(* hooks/useAuth.ts, the two AuthProviders, LoginPage and RegisterPage     *)
(***************************************************************************)
Null      == "<null>"
Undefined == "undefined"      \* what String(undefined) gives
NoAuth    == <<>>             \* no Authorization header on a request
Bearer(t) == <<"Bearer", t>>  \* `Bearer ${token}`

Emails    == {"a@x.io", "b@x.io"}
Passwords == {"pw1", "pw2"}
Tokens    == {"t1", "t2"}

NoCall == [fn |-> "none", client |-> "none", attempts |-> 0, retry |-> FALSE,
           auth |-> NoAuth, form |-> <<>>, sent |-> <<>>, sess |-> Null,
           status |-> 0]

\* what is remembered of a call: function, client, requests made, last status
Settle(c, status) ==
    [fn |-> c.fn, client |-> c.client, attempts |-> c.attempts,
     retry |-> c.retry, status |-> status]

\* obj.name in JavaScript: undefined when the object has no such property
Field(obj, name) == IF name \in DOMAIN obj THEN obj[name] ELSE Undefined

\* the login answer of the backend (docs/api/README.md, types/api.ts AuthResponse)
AuthResponse(token, email) == [access_token |-> token, token_type |-> "bearer", user |-> email]

\* request interceptor of lib/api.ts
ApiInterceptor ==
    LET token == localStorage["accessToken"]
    IN  IF token # Null /\ token # "" THEN Bearer(token) ELSE NoAuth

\* request interceptor of lib/api-client.ts
ApiClientInterceptor ==
    LET token == localStorage["auth_token"]
    IN  IF token # Null /\ token # "" THEN Bearer(token) ELSE NoAuth

RequestHeader(client) ==
    CASE client = "api"       -> ApiInterceptor
      [] client = "apiClient" -> ApiClientInterceptor
      [] OTHER                -> NoAuth

\* one HTTP request leaves the browser
Send(fn, client, form, sent) ==
    /\ call = NoCall
    /\ call' = [fn |-> fn, client |-> client, attempts |-> 1, retry |-> FALSE,
                auth |-> RequestHeader(client), form |-> form, sent |-> sent,
                sess |-> session, status |-> 0]

\* hooks/useAuth.ts: login.mutate(data) -> authAPI.login(data.email, data.password)
UseAuthLogin ==
    /\ \E e \in Emails, p \in Passwords :
         Send("authAPI.login", "api", <<e, p>>, <<e, p>>)
    /\ UNCHANGED <<localStorage, user, featUser, location, accounts, settled, session>>

\* LoginPage.onSubmit(data: {email, password}) -> AuthProvider.login(data)
\* -> authService.login({username, password}): data has no username property
LoginPageSubmit ==
    /\ \E e \in Emails, p \in Passwords :
         LET data == [email |-> e, password |-> p]
         IN  Send("authService.login", "authApi", <<e, p>>,
                  <<Field(data, "username"), Field(data, "password")>>)
    /\ UNCHANGED <<localStorage, user, featUser, location, accounts, settled, session>>

\* RegisterPage.onSubmit(data) -> AuthProvider.register(data)
\* -> authService.register({email, password})
RegisterPageSubmit ==
    /\ \E e \in Emails, p \in Passwords :
         LET data == [email |-> e, password |-> p]
         IN  Send("authService.register", "authApi", <<e, p>>,
                  <<Field(data, "email"), Field(data, "password")>>)
    /\ UNCHANGED <<localStorage, user, featUser, location, accounts, settled, session>>

\* features LoginPage.handleSubmit -> AuthProvider.login(email, password)
FeatureLogin ==
    /\ \E e \in Emails, p \in Passwords :
         Send("features.login", "axios", <<e, p>>, <<e, p>>)
    /\ UNCHANGED <<localStorage, user, featUser, location, accounts, settled, session>>

\* AuthProvider.logout of contexts/AuthContext -> authService.logout()
ProviderLogout ==
    /\ Send("authService.logout", "authApi", <<>>, <<>>)
    /\ UNCHANGED <<localStorage, user, featUser, location, accounts, settled, session>>

\* any other call through lib/api.ts (storageAPI.listFiles, authAPI.getProfile, ...)
ApiRequest ==
    /\ Send("api.request", "api", <<>>, <<>>)
    /\ UNCHANGED <<localStorage, user, featUser, location, accounts, settled, session>>

\* any call through lib/api-client.ts (api.listFiles, api.listBuckets, ...)
ApiClientRequest ==
    /\ Send("apiClient.request", "apiClient", <<>>, <<>>)
    /\ UNCHANGED <<localStorage, user, featUser, location, accounts, settled, session>>

\* the statuses the backend can answer a request with
Statuses(c) ==
    CASE c.fn \in {"authAPI.login", "authService.login", "features.login"} ->
            IF c.sent \in accounts THEN {200, 500} ELSE {401, 500}
      [] c.fn = "authService.register" ->
            IF \E a \in accounts : a[1] = c.sent[1] THEN {400, 500} ELSE {200, 500}
      [] OTHER -> {200, 401, 500}

\* lib/api.ts: the response interceptor and the caller's continuation
ApiResponse ==
    /\ call.client = "api"
    /\ \E status \in Statuses(call), token \in Tokens :
         /\ settled' = Settle(call, status)
         /\ IF Ok(status)
            THEN /\ IF call.fn = "authAPI.login"
                    THEN /\ location' = "/dashboard"
                         /\ session' = token
                    ELSE UNCHANGED <<location, session>>
                 /\ UNCHANGED localStorage
            ELSE IF status = 401
            THEN /\ localStorage' = [localStorage EXCEPT !["accessToken"] = Null]
                 /\ location' = "/login"
                 /\ session' = Null
            ELSE UNCHANGED <<localStorage, location, session>>
    /\ call' = NoCall
    /\ UNCHANGED <<user, featUser, accounts>>

\* mutation: the _retry mark is not looked at
ShouldRetry_unmarked(status, retry) == status = 401

\* mutation: every failed request is re-sent once
ShouldRetry_anyError(status, retry) == ~retry

\* error.response?.status === 401 && !originalRequest._retry
ShouldRetry(status, retry) == status = 401 /\ ~retry

\* lib/api-client.ts: the response interceptor
ApiClientResponse ==
    /\ call.client = "apiClient"
    /\ \E status \in Statuses(call) :
         IF ~Ok(status) /\ ShouldRetry(status, call.retry)
         THEN /\ call' = [call EXCEPT !.retry = TRUE, !.attempts = @ + 1,
                                      !.auth = ApiClientInterceptor,
                                      !.status = status]
              /\ UNCHANGED settled
         ELSE /\ call' = NoCall
              /\ settled' = Settle(call, status)
    /\ UNCHANGED <<localStorage, user, featUser, location, accounts, session>>

\* services/auth.ts authService.* and the AuthProvider continuation
AuthServiceResponse ==
    /\ call.client = "authApi"
    /\ \E status \in Statuses(call), token \in Tokens :
         /\ settled' = Settle(call, status)
         /\ IF ~Ok(status)
            THEN UNCHANGED <<user, location, accounts, session>>
            ELSE CASE call.fn = "authService.login" ->
                        /\ user' = call.sent[1]
                        /\ location' = "/dashboard"
                        /\ session' = token
                        /\ UNCHANGED accounts
                   [] call.fn = "authService.register" ->
                        /\ accounts' = accounts \cup {call.sent}
                        /\ user' = call.sent[1]
                        /\ location' = "/dashboard"
                        /\ UNCHANGED session
                   [] OTHER ->
                        /\ user' = Null
                        /\ location' = "/login"
                        /\ session' = Null
                        /\ UNCHANGED accounts
    /\ call' = NoCall
    /\ UNCHANGED <<localStorage, featUser>>

\* components/features/auth/AuthContext: login continuation
FeatureLoginResponse ==
    /\ call.client = "axios"
    /\ \E status \in Statuses(call), token \in Tokens :
         /\ settled' = Settle(call, status)
         /\ IF Ok(status)
            THEN LET data == AuthResponse(token, call.sent[1])
                 IN  /\ featUser' = Field(data, "user")
                     /\ localStorage' = [localStorage EXCEPT
                                           !["accessToken"] = Field(data, "accessToken")]
                     /\ session' = token
            ELSE UNCHANGED <<featUser, localStorage, session>>
    /\ call' = NoCall
    /\ UNCHANGED <<user, location, accounts>>

\* authAPI.logout of lib/api.ts
AuthAPILogout ==
    /\ localStorage' = [localStorage EXCEPT !["accessToken"] = Null]
    /\ session' = Null
    /\ session # Null \/ localStorage["accessToken"] # Null
    /\ UNCHANGED <<user, featUser, location, accounts, call, settled>>

\* AuthProvider.logout of components/features/auth/AuthContext
FeatureLogout ==
    /\ featUser' = Null
    /\ localStorage' = [localStorage EXCEPT !["accessToken"] = Null]
    /\ session' = Null
    /\ session # Null \/ localStorage["accessToken"] # Null \/ featUser # Null
    /\ UNCHANGED <<user, location, accounts, call, settled>>

\* checkAuth() of the effect run on mount: const user = await
\* authService.getCurrentUser(); setUser(user).  getCurrentUser returns
\* response.data, or null when the request failed in any way
CheckAuthResponse ==
    /\ authCheck = "sent"
    /\ authCheck' = "done"
    /\ \/ \E account \in accounts : user' = account[1]
       \/ user' = Null
    /\ UNCHANGED <<localStorage, featUser, location, accounts, call, settled, session>>

InitAuth ==
    /\ localStorage = [k \in {"accessToken", "auth_token"} |-> Null]
    /\ user = Null
    /\ featUser = Null
    /\ location = "/login"
    /\ accounts = {}
    /\ call = NoCall
    /\ settled = Settle(NoCall, 0)
    /\ session = Null
    /\ authCheck = "sent"

(***************************************************************************)
(* FileUploader (lib/utils/upload.ts) against the storage server           *)
(***************************************************************************)
MaxFileSize  == 3
MaxChunkOpt  == 2

CHUNK_SIZE == 5 * 1024 * 1024

Bytes == {"x", "y"}
Files == UNION {[1..n -> Bytes] : n \in 0..MaxFileSize}

NoObject == <<"<no object>">>

\* this.options.chunkSize || CHUNK_SIZE
ChunkSize(opt) == IF opt # 0 THEN opt ELSE CHUNK_SIZE

\* Blob.slice(start, end): end is clipped to the size
Slice(f, start, end) ==
    SubSeq(f, start + 1, IF end > Len(f) THEN Len(f) ELSE end)

RECURSIVE Chunks(_, _, _)
\* while (offset < file.size) { chunks.push(file.slice(offset, offset + chunkSize)); ... }
Chunks(f, offset, chunkSize) ==
    IF offset < Len(f)
    THEN <<Slice(f, offset, offset + chunkSize)>> \o Chunks(f, offset + chunkSize, chunkSize)
    ELSE <<>>

TheChunks == Chunks(upFile, 0, ChunkSize(upChunkOpt))

\* the ETag header of part i as the server sends it, in double quotes
ETagNames == <<"e1", "e2", "e3", "e4", "e5", "e6", "e7", "e8">>
ETagHeader(i) == <<"\"", ETagNames[i], "\"">>

\* etag.replace(/['"]/g, '')
StripQuotes(etag) == SelectSeq(etag, LAMBDA t : t \notin {"'", "\""})

RECURSIVE Assemble(_, _)
\* the server builds the object from the parts named in the complete request,
\* in the order the request lists them
Assemble(parts, stored) ==
    IF parts = <<>> THEN <<>>
    ELSE stored[Head(parts).part_number] \o Assemble(Tail(parts), stored)

Reject == upPc' = "rejected"

\* start(): try { return this.uploadSinglePart() | this.uploadMultipart() }
\* catch (error) { onError(error); throw error }.  The promise is returned
\* without await, so the try block has ended when the promise rejects: the
\* catch clause runs only for a synchronous throw, and none of the statements
\* of the try block throws
Start ==
    /\ upPc = "constructed"
    /\ upPc' = IF Len(upFile) <= ChunkSize(upChunkOpt)
               THEN "single:config" ELSE "multi:create"
    /\ UNCHANGED <<upFile, upChunkOpt, upUploadId, upParts, upChunks, upPartPc,
                   upAborted, upCompleteReq, upCallbacks, srvParts, srvUpload, srvObject,
                   upAbortReq>>

\* uploadSinglePart: await this.getUploadUrl()
UploadConfigResponse ==
    /\ upPc = "single:config"
    /\ \E ok \in BOOLEAN : upPc' = IF ok THEN "single:post" ELSE "rejected"
    /\ UNCHANGED <<upFile, upChunkOpt, upUploadId, upParts, upChunks, upPartPc,
                   upAborted, upCompleteReq, upCallbacks, srvParts, srvUpload, srvObject,
                   upAbortReq>>

\* uploadSinglePart: await fetch(url, {method: 'POST', body: formData, signal})
FormPostResponse ==
    /\ upPc = "single:post"
    /\ \E stored \in BOOLEAN, ok \in BOOLEAN :
         /\ ok => (stored /\ ~upAborted)
         /\ srvObject' = IF stored THEN upFile ELSE srvObject
         /\ upPc' = IF ok THEN "single:meta" ELSE "rejected"
    /\ UNCHANGED <<upFile, upChunkOpt, upUploadId, upParts, upChunks, upPartPc,
                   upAborted, upCompleteReq, upCallbacks, srvParts, srvUpload,
                   upAbortReq>>

\* uploadSinglePart: await storageAPI.getObjectMetadata(...); onComplete
ObjectMetadataResponse ==
    /\ upPc = "single:meta"
    /\ \E ok \in BOOLEAN :
         IF ok
         THEN /\ upPc' = "resolved"
              /\ upCallbacks' = [upCallbacks EXCEPT !.onComplete = @ + 1]
         ELSE /\ Reject
              /\ UNCHANGED upCallbacks
    /\ UNCHANGED <<upFile, upChunkOpt, upUploadId, upParts, upChunks, upPartPc,
                   upAborted, upCompleteReq, srvParts, srvUpload, srvObject,
                   upAbortReq>>

\* uploadMultipart: await storageAPI.createMultipartUpload(...), then the
\* chunks are cut and every uploadPart(parts[index].url, ...) is started;
\* parts[index] is undefined when the server sent fewer URLs than chunks,
\* and a fetch with a signal that is already aborted fails at once
CreateMultipartResponse ==
    /\ upPc = "multi:create"
    /\ \/ /\ Reject
          /\ UNCHANGED <<upUploadId, upPartPc, srvUpload>>
       \/ \E urls \in 0..(MaxFileSize + 1) :
            /\ upUploadId' = "upload-1"
            /\ srvUpload' = "open"
            /\ upPartPc' = [i \in 1..Len(TheChunks) |->
                               IF i > urls THEN "idle"
                               ELSE IF upAborted THEN "failed" ELSE "inflight"]
            /\ upPc' = IF urls < Len(TheChunks) \/ upAborted
                       THEN "rejected" ELSE "multi:parts"
    /\ UNCHANGED <<upFile, upChunkOpt, upParts, upChunks, upAborted,
                   upCompleteReq, upCallbacks, srvParts, srvObject,
                   upAbortReq>>

\* the server receives PUT <url of part i> and keeps the bytes under part i
PartStored(i) ==
    /\ upPartPc[i] = "inflight"
    /\ srvUpload = "open"
    /\ upPartPc' = [upPartPc EXCEPT ![i] = "stored"]
    /\ srvParts' = [srvParts EXCEPT ![i] = TheChunks[i]]
    /\ UNCHANGED <<upFile, upChunkOpt, upPc, upUploadId, upParts, upChunks,
                   upAborted, upCompleteReq, upCallbacks, srvUpload, srvObject,
                   upAbortReq>>

\* uploadPart after await fetch: push {part_number, etag}; when the last part
\* is in, Promise.all resolves and completeMultipartUpload(this.parts) is sent
PartUploaded(i) ==
    /\ upPartPc[i] = "stored"
    /\ ~upAborted
    /\ upPartPc' = [upPartPc EXCEPT ![i] = "done"]
    /\ upParts' = Append(upParts, [part_number |-> i, etag |-> StripQuotes(ETagHeader(i))])
    /\ upChunks' = upChunks + 1
    /\ IF upPc = "multi:parts" /\ \A j \in DOMAIN upPartPc : upPartPc'[j] = "done"
       THEN /\ upPc' = "multi:complete"
            /\ upCompleteReq' = upParts'
       ELSE UNCHANGED <<upPc, upCompleteReq>>
    /\ UNCHANGED <<upFile, upChunkOpt, upUploadId, upAborted, upCallbacks,
                   srvParts, srvUpload, srvObject,
                   upAbortReq>>

\* uploadPart throws: the fetch failed or was aborted, the response was not
\* OK, or it carried no etag; Promise.all rejects with the first failure
PartFailed(i) ==
    /\ upPartPc[i] \in {"inflight", "stored"}
    /\ upPartPc' = [upPartPc EXCEPT ![i] = "failed"]
    /\ upPc' = IF upPc = "multi:parts" THEN "rejected" ELSE upPc
    /\ UNCHANGED <<upFile, upChunkOpt, upUploadId, upParts, upChunks, upAborted,
                   upCompleteReq, upCallbacks, srvParts, srvUpload, srvObject,
                   upAbortReq>>

\* the server handles the complete request
CompleteStored ==
    /\ upPc = "multi:complete"
    /\ srvUpload = "open"
    /\ srvUpload' = "completed"
    /\ srvObject' = Assemble(upCompleteReq, srvParts)
    /\ UNCHANGED <<upFile, upChunkOpt, upPc, upUploadId, upParts, upChunks, upPartPc,
                   upAborted, upCompleteReq, upCallbacks, srvParts,
                   upAbortReq>>

\* uploadMultipart after await storageAPI.completeMultipartUpload(...)
CompleteResponse ==
    /\ upPc = "multi:complete"
    /\ \/ /\ srvUpload = "completed"
          /\ upPc' = "resolved"
          /\ upCallbacks' = [upCallbacks EXCEPT !.onComplete = @ + 1]
       \/ /\ Reject
          /\ UNCHANGED upCallbacks
    /\ UNCHANGED <<upFile, upChunkOpt, upUploadId, upParts, upChunks, upPartPc,
                   upAborted, upCompleteReq, srvParts, srvUpload, srvObject,
                   upAbortReq>>

\* abort(): the signal is aborted; with an uploadId the abort request is sent
\* and the server drops the upload if it is still open
Abort ==
    /\ ~upAborted
    /\ upAborted' = TRUE
    /\ upAbortReq' = [at |-> upPc, upload_id |-> upUploadId]
    /\ IF upUploadId # Null /\ srvUpload = "open"
       THEN \E reached \in BOOLEAN :
              srvUpload' = IF reached THEN "aborted" ELSE srvUpload
       ELSE UNCHANGED srvUpload
    /\ UNCHANGED <<upFile, upChunkOpt, upPc, upUploadId, upParts, upChunks, upPartPc,
                   upCompleteReq, upCallbacks, srvParts, srvObject>>

InitUpload ==
    /\ upFile \in Files
    /\ upChunkOpt \in 0..MaxChunkOpt
    /\ upPc = "constructed"
    /\ upUploadId = Null
    /\ upParts = <<>>
    /\ upChunks = 0
    /\ upPartPc = <<>>
    /\ upAborted = FALSE
    /\ upCompleteReq = <<>>
    /\ upAbortReq = [at |-> "never", upload_id |-> Null]
    /\ upCallbacks = [onComplete |-> 0, onError |-> 0]
    /\ srvParts = [i \in 1..MaxFileSize |-> <<>>]
    /\ srvUpload = "none"
    /\ srvObject = NoObject

\* the other specifications keep the uploader of an empty file
IdleUpload ==
    /\ InitUpload
    /\ upFile = <<>>
    /\ upChunkOpt = 0

(***************************************************************************)
(* File store (store/useStore.ts) and the useFiles hook                    *)
(***************************************************************************)
MaxOps == 2

Paths == {"/", "/docs"}

Failed == [path |-> "<failed>", docs |-> {}]

\* what storageAPI.listFiles(path) answers: the documents the server holds
Listing(path, docs) == [path |-> path, docs |-> docs]

NoOp == [fn |-> "none", pc |-> "idle", arg |-> 0, path |-> Null, ok |-> FALSE,
         snap |-> Failed, stored |-> FALSE, refetched |-> FALSE, shown |-> Failed]

\* call i is the next one to be made
Fresh(i) ==
    /\ ops[i].fn = "none"
    /\ \A j \in 1..(i - 1) : ops[j].fn # "none"

\* fetchFiles(path): set({isLoading: true, error: null}); listFiles(path) is sent
FetchFiles(i) ==
    /\ Fresh(i)
    /\ \E path \in Paths :
         ops' = [ops EXCEPT ![i] = [NoOp EXCEPT !.fn = "fetchFiles",
                                                !.pc = "list:sent", !.path = path]]
    /\ stIsLoading' = TRUE
    /\ stError' = Null
    /\ UNCHANGED <<stFiles, stCurrentPath, qData, qFetch, srvDocs>>

\* uploadFile(file): set({isLoading: true, error: null}); uploadDocument is sent
UploadFile(i) ==
    /\ Fresh(i)
    /\ ops' = [ops EXCEPT ![i] = [NoOp EXCEPT !.fn = "uploadFile",
                                             !.pc = "main:sent", !.arg = i]]
    /\ stIsLoading' = TRUE
    /\ stError' = Null
    /\ UNCHANGED <<stFiles, stCurrentPath, qData, qFetch, srvDocs>>

\* deleteFile(fileId) for a file of the list shown
DeleteFile(i) ==
    /\ Fresh(i)
    /\ \E d \in stFiles.docs :
         ops' = [ops EXCEPT ![i] = [NoOp EXCEPT !.fn = "deleteFile",
                                                !.pc = "main:sent", !.arg = d]]
    /\ stIsLoading' = TRUE
    /\ stError' = Null
    /\ UNCHANGED <<stFiles, stCurrentPath, qData, qFetch, srvDocs>>

\* searchFiles(query)
SearchFiles(i) ==
    /\ Fresh(i)
    /\ ops' = [ops EXCEPT ![i] = [NoOp EXCEPT !.fn = "searchFiles",
                                             !.pc = "main:sent", !.path = "search"]]
    /\ stIsLoading' = TRUE
    /\ stError' = Null
    /\ UNCHANGED <<stFiles, stCurrentPath, qData, qFetch, srvDocs>>

\* useFiles.uploadFile(file): the mutation runs getUploadUrl, then the PUT
UseFilesUpload(i) ==
    /\ Fresh(i)
    /\ ops' = [ops EXCEPT ![i] = [NoOp EXCEPT !.fn = "useFiles.upload",
                                             !.pc = "url:sent", !.arg = i]]
    /\ UNCHANGED <<stFiles, stCurrentPath, stIsLoading, stError, qData, qFetch, srvDocs>>

\* the server handles the request of call i and answers, or the request fails
ServerAnswers(i) ==
    /\ ops[i].pc \in {"main:sent", "list:sent", "url:sent"}
    /\ \E ok \in BOOLEAN :
         LET o == ops[i]
             mutates == ok /\ o.pc = "main:sent"
         IN  /\ srvDocs' =
                   IF mutates /\ o.fn \in {"uploadFile", "useFiles.upload"}
                   THEN srvDocs \cup {o.arg}
                   ELSE IF mutates /\ o.fn = "deleteFile"
                   THEN srvDocs \ {o.arg}
                   ELSE srvDocs
             /\ ops' = [ops EXCEPT ![i] =
                   [o EXCEPT !.pc = CASE o.pc = "main:sent" -> "main:answered"
                                      [] o.pc = "list:sent" -> "list:answered"
                                      [] OTHER              -> "url:answered",
                             !.ok = ok,
                             !.stored = IF o.pc = "main:sent" THEN ok ELSE @,
                             !.snap = IF ok /\ o.pc = "list:sent"
                                      THEN Listing(o.path, srvDocs)
                                      ELSE IF ok /\ o.fn = "searchFiles"
                                      THEN Listing("search", srvDocs)
                                      ELSE Failed]]
    /\ UNCHANGED <<stFiles, stCurrentPath, stIsLoading, stError, qData, qFetch>>

\* the rest of fetchFiles once listFiles has settled; also the tail of
\* uploadFile / deleteFile, whose own finally block runs right after
ListSettled(i) ==
    /\ ops[i].pc = "list:answered"
    /\ IF ops[i].ok
       THEN /\ stFiles' = ops[i].snap
            /\ stCurrentPath' = ops[i].path
            /\ UNCHANGED stError
       ELSE /\ stError' = "Request failed"
            /\ UNCHANGED <<stFiles, stCurrentPath>>
    /\ stIsLoading' = FALSE
    /\ ops' = [ops EXCEPT ![i] = [@ EXCEPT !.pc = "done",
                                          !.shown = IF ops[i].ok THEN stFiles' ELSE Failed]]
    /\ UNCHANGED <<qData, qFetch, srvDocs>>

\* mutation: uploadFile / deleteFile return without fetching the list again
Refetch_skipped(o) == [o EXCEPT !.pc = "done"]

\* await get().fetchFiles(get().currentPath): listFiles(currentPath) is sent
Refetch(o) == [o EXCEPT !.pc = "list:sent", !.path = stCurrentPath, !.refetched = TRUE]

\* the rest of uploadFile / deleteFile / searchFiles once their request has
\* settled: on success `await get().fetchFiles(get().currentPath)`
MainSettled(i) ==
    /\ ops[i].pc = "main:answered"
    /\ ops[i].fn \in {"uploadFile", "deleteFile", "searchFiles"}
    /\ IF ~ops[i].ok
       THEN /\ stError' = "Request failed"
            /\ stIsLoading' = FALSE
            /\ ops' = [ops EXCEPT ![i] = [@ EXCEPT !.pc = "done"]]
            /\ UNCHANGED <<stFiles, stCurrentPath>>
       ELSE IF ops[i].fn = "searchFiles"
       THEN /\ stFiles' = ops[i].snap
            /\ stIsLoading' = FALSE
            /\ ops' = [ops EXCEPT ![i] = [@ EXCEPT !.pc = "done"]]
            /\ UNCHANGED <<stError, stCurrentPath>>
       ELSE /\ stIsLoading' = TRUE
            /\ stError' = Null
            /\ ops' = [ops EXCEPT ![i] = Refetch(ops[i])]
            /\ UNCHANGED <<stFiles, stCurrentPath>>
    /\ UNCHANGED <<qData, qFetch, srvDocs>>

\* queryClient.invalidateQueries({queryKey: ['files']}): the query is fetched
\* again; a fetch still in flight is cancelled and replaced
InvalidateQueries(after) == [pc |-> "sent", ok |-> FALSE, snap |-> {}, after |-> after]

\* the useFiles upload mutation: getUploadUrl, then api.uploadFile (PUT), then
\* onSuccess invalidates the 'files' query
MutationStep(i) ==
    /\ ops[i].fn = "useFiles.upload"
    /\ ops[i].pc \in {"url:answered", "main:answered"}
    /\ IF ~ops[i].ok
       THEN /\ ops' = [ops EXCEPT ![i] = [@ EXCEPT !.pc = "done"]]
            /\ UNCHANGED qFetch
       ELSE IF ops[i].pc = "url:answered"
       THEN /\ ops' = [ops EXCEPT ![i] = [@ EXCEPT !.pc = "main:sent"]]
            /\ UNCHANGED qFetch
       ELSE /\ ops' = [ops EXCEPT ![i] = [@ EXCEPT !.pc = "done", !.refetched = TRUE]]
            /\ qFetch' = InvalidateQueries(qFetch.after \cup {ops[i].arg})
    /\ UNCHANGED <<stFiles, stCurrentPath, stIsLoading, stError, qData, srvDocs>>

\* queryFn: api.listFiles(bucket) is answered
QueryAnswered ==
    /\ qFetch.pc = "sent"
    /\ \E ok \in BOOLEAN :
         qFetch' = [qFetch EXCEPT !.pc = "answered", !.ok = ok,
                                  !.snap = IF ok THEN srvDocs ELSE {}]
    /\ UNCHANGED <<stFiles, stCurrentPath, stIsLoading, stError, ops, qData, srvDocs>>

\* the query settles: data is replaced on success and kept on error
QuerySettled ==
    /\ qFetch.pc = "answered"
    /\ qData' = IF qFetch.ok THEN [docs |-> qFetch.snap, after |-> qFetch.after] ELSE qData
    /\ qFetch' = [qFetch EXCEPT !.pc = "idle"]
    /\ UNCHANGED <<stFiles, stCurrentPath, stIsLoading, stError, ops, srvDocs>>

InitStore ==
    /\ stFiles = [path |-> Null, docs |-> {}]
    /\ stCurrentPath = "/"
    /\ stIsLoading = FALSE
    /\ stError = Null
    /\ ops = [i \in 1..MaxOps |-> NoOp]
    /\ qData = [docs |-> {}, after |-> {}]
    /\ qFetch = InvalidateQueries({})
    /\ srvDocs = {}

(***************************************************************************)
(* RateLimiter.check_rate_limit (middleware/rate_limit.py), one client_id, *)
(* run by the workers of the ASGI server against one redis                 *)
(***************************************************************************)
rate_limit == 100
window     == 60

\* seconds that pass in one step of the clock
TickLen == 20

Workers == {"w1", "w2"}

\* current = redis.get(key); if current and int(current) > rate_limit: raise 429
Exceeded(current) == current # 0 /\ current > rate_limit

\* check_rate_limit up to the raise: the key is read and compared
CheckRateLimit(w) ==
    /\ rlPc[w] = "idle"
    /\ IF Exceeded(rlCount)
       THEN /\ rlLast' = [rlLast EXCEPT ![w] = 429]
            /\ UNCHANGED rlPc
       ELSE /\ rlPc' = [rlPc EXCEPT ![w] = "passed"]
            /\ rlLast' = [rlLast EXCEPT ![w] = 0]
    /\ UNCHANGED <<rlCount, rlTtl, rlWinAge, rlWinCount>>

\* pipe.incr(key); pipe.expire(key, window); pipe.execute(): the request is admitted
Admit(w) ==
    /\ rlPc[w] = "passed"
    /\ rlCount' = rlCount + 1
    /\ rlTtl' = window
    /\ rlPc' = [rlPc EXCEPT ![w] = "idle"]
    /\ rlLast' = [rlLast EXCEPT ![w] = 200]
    /\ IF rlWinCount = 0 \/ rlWinAge >= window
       THEN rlWinAge' = 0 /\ rlWinCount' = 1
       ELSE rlWinCount' = rlWinCount + 1 /\ UNCHANGED rlWinAge

\* TickLen seconds pass; redis drops the key when its time to live is over
Tick ==
    /\ rlTtl > 0 \/ rlWinAge < window
    /\ rlTtl' = IF rlTtl > TickLen THEN rlTtl - TickLen ELSE 0
    /\ rlCount' = IF rlTtl > TickLen THEN rlCount ELSE 0
    /\ rlWinAge' = IF rlWinAge + TickLen >= window THEN window ELSE rlWinAge + TickLen
    /\ UNCHANGED <<rlPc, rlLast, rlWinCount>>

InitRate ==
    /\ rlCount = 0
    /\ rlTtl = 0
    /\ rlPc = [w \in Workers |-> "idle"]
    /\ rlLast = [w \in Workers |-> 0]
    /\ rlWinAge = 0
    /\ rlWinCount = 0

(***************************************************************************)
(* The Next.js middleware (src/middleware.ts) and the browser's navigation *)
(***************************************************************************)
NoCookie == "<no cookie>"

\* the values of the cookie 'token' a request can carry
CookieValues == {NoCookie, "", "t1"}

\* the pages a browser can ask for
Pages == {"/", "/login", "/loginhelp", "/register", "/forgot-password",
          "/reset-password", "/dashboard", "/dashboard/files", "/storage",
          "/settings", "/profile", "/profiles", "/about", "/api/health"}

\* request.nextUrl.pathname as a sequence of tokens
Pathname(page) ==
    CASE page = "/"                -> <<"/">>
      [] page = "/login"           -> <<"/", "login">>
      [] page = "/loginhelp"       -> <<"/", "login", "help">>
      [] page = "/register"        -> <<"/", "register">>
      [] page = "/forgot-password" -> <<"/", "forgot-password">>
      [] page = "/reset-password"  -> <<"/", "reset-password">>
      [] page = "/dashboard"       -> <<"/", "dashboard">>
      [] page = "/dashboard/files" -> <<"/", "dashboard", "/", "files">>
      [] page = "/storage"         -> <<"/", "storage">>
      [] page = "/settings"        -> <<"/", "settings">>
      [] page = "/profile"         -> <<"/", "profile">>
      [] page = "/profiles"        -> <<"/", "profile", "s">>
      [] page = "/about"           -> <<"/", "about">>
      [] page = "/api/health"      -> <<"/", "api", "/", "health">>

\* String.prototype.startsWith
StartsWith(s, prefix) ==
    Len(s) >= Len(prefix) /\ SubSeq(s, 1, Len(prefix)) = prefix

protectedPaths ==
    {<<"/", "dashboard">>, <<"/", "storage">>, <<"/", "settings">>, <<"/", "profile">>}

authPaths ==
    {<<"/", "login">>, <<"/", "register">>, <<"/", "forgot-password">>,
     <<"/", "reset-password">>}

\* config.matcher '/((?!api|_next|_static|favicon.ico|sitemap.xml).*)': the
\* middleware runs unless the path goes on with one of these after the '/'
matcher(pathname) ==
    ~\E x \in {"api", "_next", "_static", "favicon.ico", "sitemap.xml"} :
        StartsWith(pathname, <<"/", x>>)

\* request.cookies.get('token')?.value as a condition
Truthy(token) == token \notin {NoCookie, ""}

NextResponseNext == [kind |-> "next", to |-> "", from |-> <<>>]
NextResponseRedirect(to, from) == [kind |-> "redirect", to |-> to, from |-> from]

\* mutation: an exact comparison instead of startsWith
isProtectedPath_exact(pathname) == pathname \in protectedPaths

\* protectedPaths.some(path => pathname.startsWith(path))
isProtectedPath(pathname) == \E path \in protectedPaths : StartsWith(pathname, path)

\* authPaths.some(path => pathname.startsWith(path))
isAuthPath(pathname) == \E path \in authPaths : StartsWith(pathname, path)

\* middleware(request)
middleware(token, pathname) ==
    IF ~Truthy(token) /\ isProtectedPath(pathname)
    THEN NextResponseRedirect("/login", pathname)
    ELSE IF Truthy(token) /\ isAuthPath(pathname)
    THEN NextResponseRedirect("/dashboard", <<>>)
    ELSE IF StartsWith(pathname, <<"/", "api", "/">>)
    THEN NextResponseNext
    ELSE NextResponseNext

\* the user opens a page: types its address or follows a link
Navigate ==
    /\ mwPc = "served"
    /\ \E page \in Pages : location' = page
    /\ mwPc' = "requested"
    /\ mwAfter401' = FALSE
    /\ UNCHANGED <<cookieToken, mwReq, mwResp>>
    /\ UNCHANGED <<localStorage, user, featUser, accounts, call, settled, session>>

\* the server answers the request for the page at location: through the
\* middleware if the matcher selects the path; the browser follows a redirect
HandleRequest ==
    /\ mwPc = "requested"
    /\ LET pathname == Pathname(location)
           response == IF matcher(pathname)
                       THEN middleware(cookieToken, pathname)
                       ELSE NextResponseNext
       IN  /\ mwReq' = [token |-> cookieToken, pathname |-> pathname,
                        matched |-> matcher(pathname)]
           /\ mwResp' = response
           /\ IF response.kind = "redirect"
              THEN /\ location' = response.to
                   /\ UNCHANGED mwPc
              ELSE /\ mwPc' = "served"
                   /\ UNCHANGED location
    /\ UNCHANGED <<cookieToken, mwAfter401>>
    /\ UNCHANGED <<localStorage, user, featUser, accounts, call, settled, session>>

\* what the browser does when a response handler has run: router.push to
\* another page and window.location.href = ... both request the page
Browser(handler401, loggedIn) ==
    /\ mwPc' = IF handler401 \/ location' # location THEN "requested" ELSE mwPc
    /\ mwAfter401' = IF handler401 THEN TRUE
                     ELSE IF loggedIn THEN FALSE ELSE mwAfter401
    /\ UNCHANGED <<cookieToken, mwReq, mwResp>>

\* a page that is shown starts a request through lib/api.ts
PageRequest ==
    /\ mwPc = "served"
    /\ ApiRequest \/ UseAuthLogin
    /\ UNCHANGED mwVars

\* lib/api.ts answers; a 401 runs window.location.href = '/login'
PageResponse ==
    /\ ApiResponse
    /\ Browser(settled'.status = 401,
               settled'.fn = "authAPI.login" /\ Ok(settled'.status))

InitMiddleware ==
    /\ cookieToken = NoCookie
    /\ mwPc = "requested"
    /\ mwReq = [token |-> NoCookie, pathname |-> <<>>, matched |-> FALSE]
    /\ mwResp = NextResponseNext
    /\ mwAfter401 = FALSE

(***************************************************************************)
(* The database: db/init.sql run by psql on an empty database, and the     *)
(* rows of ai_jobs written afterwards                                      *)
(***************************************************************************)
MaxJobs == 2

\* INSERT INTO permissions (name, description) VALUES ..., in this order
SeedPermissions ==
    <<"user:read", "user:write", "user:delete",
      "role:read", "role:write", "role:delete",
      "file:read", "file:write", "file:delete", "file:share",
      "system:admin", "ai:process", "ai:model:read", "ai:model:write",
      "storage:admin", "analytics:read", "analytics:write", "api:access">>

\* INSERT INTO roles (name, description) VALUES ..., in this order
SeedRoles == <<"admin", "user", "ai_processor", "storage_manager", "analyst">>

\* p.name IN (...) of the standard user grant
UserPermissionNames ==
    {"user:read", "file:read", "file:write", "file:delete", "file:share",
     "ai:process", "api:access"}

\* values a client can put into a VARCHAR column; SqlNull is NULL
SqlNull  == "<NULL>"
Varchars == {"pending", "processing", "completed", "failed", "cancelled", ""}

RECURSIVE InsertNamed(_, _, _)
\* INSERT INTO t (name, ...) VALUES ... ON CONFLICT (name) DO NOTHING: the rows
\* are taken in order, id SERIAL draws the next value of the sequence for
\* every row, a row whose name exists already is skipped
InsertNamed(rows, names, id) ==
    IF names = <<>> THEN rows
    ELSE InsertNamed(IF \E r \in rows : r.name = Head(names)
                     THEN rows
                     ELSE rows \cup {[id |-> id, name |-> Head(names)]},
                     Tail(names), id + 1)

\* SELECT r.id, p.id FROM roles r, permissions p WHERE r.name = 'admin'
AdminGrant_userOnly ==
    {<<r.id, p.id>> : r \in {x \in roles : x.name = "admin"},
                      p \in {y \in permissions : y.name \in UserPermissionNames}}

AdminGrant ==
    {<<r.id, p.id>> : r \in {x \in roles : x.name = "admin"}, p \in permissions}

\* SELECT r.id, p.id FROM roles r, permissions p
\* WHERE r.name = 'user' AND p.name IN (...)
UserGrant ==
    {<<r.id, p.id>> : r \in {x \in roles : x.name = "user"},
                      p \in {y \in permissions : y.name \in UserPermissionNames}}

\* the CREATE TABLE IF NOT EXISTS statements
CreateTables ==
    /\ dbPc = "create tables"
    /\ dbPc' = "insert permissions"
    /\ UNCHANGED <<permissions, roles, role_permissions, users, user_roles, ai_jobs>>

\* INSERT INTO permissions ... ON CONFLICT (name) DO NOTHING
InsertPermissions ==
    /\ dbPc = "insert permissions"
    /\ permissions' = InsertNamed(permissions, SeedPermissions, 1)
    /\ dbPc' = "insert roles"
    /\ UNCHANGED <<roles, role_permissions, users, user_roles, ai_jobs>>

\* INSERT INTO roles ... ON CONFLICT (name) DO NOTHING
InsertRoles ==
    /\ dbPc = "insert roles"
    /\ roles' = InsertNamed(roles, SeedRoles, 1)
    /\ dbPc' = "grant admin"
    /\ UNCHANGED <<permissions, role_permissions, users, user_roles, ai_jobs>>

\* INSERT INTO role_permissions SELECT ... WHERE r.name = 'admin' ON CONFLICT DO NOTHING
GrantAdminPermissions ==
    /\ dbPc = "grant admin"
    /\ role_permissions' = role_permissions \cup AdminGrant
    /\ dbPc' = "grant user"
    /\ UNCHANGED <<permissions, roles, users, user_roles, ai_jobs>>

\* INSERT INTO role_permissions SELECT ... WHERE r.name = 'user' AND p.name IN (...)
GrantUserPermissions ==
    /\ dbPc = "grant user"
    /\ role_permissions' = role_permissions \cup UserGrant
    /\ dbPc' = "insert admin user"
    /\ UNCHANGED <<permissions, roles, users, user_roles, ai_jobs>>

\* INSERT INTO users (...) VALUES ('admin@aicloud.local', 'admin', ...)
\* ON CONFLICT (email) DO NOTHING
InsertAdminUser ==
    /\ dbPc = "insert admin user"
    /\ users' = IF \E u \in users : u.email = "admin@aicloud.local"
                THEN users
                ELSE users \cup {[id |-> 1, email |-> "admin@aicloud.local",
                                  username |-> "admin", is_superuser |-> TRUE]}
    /\ dbPc' = "assign admin role"
    /\ UNCHANGED <<permissions, roles, role_permissions, user_roles, ai_jobs>>

\* INSERT INTO user_roles SELECT u.id, r.id FROM users u, roles r
\* WHERE u.username = 'admin' AND r.name = 'admin' ON CONFLICT DO NOTHING
AssignAdminRole ==
    /\ dbPc = "assign admin role"
    /\ user_roles' = user_roles \cup
          {<<u.id, r.id>> : u \in {x \in users : x.username = "admin"},
                            r \in {y \in roles : y.name = "admin"}}
    /\ dbPc' = "done"
    /\ UNCHANGED <<permissions, roles, role_permissions, users, ai_jobs>>

\* INSERT INTO ai_jobs (job_type[, status]) VALUES (...): status VARCHAR
\* NOT NULL DEFAULT 'pending'; no CHECK constraint and no enum type
InsertJob ==
    /\ dbPc # "create tables"
    /\ Cardinality(ai_jobs) < MaxJobs
    /\ \E explicit \in BOOLEAN, given \in Varchars \cup {SqlNull} :
         LET status == IF explicit THEN given ELSE "pending"
         IN  /\ ~explicit => given = "pending"
             /\ status # SqlNull
             /\ ai_jobs' = ai_jobs \cup
                   {[id |-> Cardinality(ai_jobs) + 1, status |-> status,
                     explicit |-> explicit, inserted |-> status]}
    /\ UNCHANGED <<dbPc, permissions, roles, role_permissions, users, user_roles>>

\* UPDATE ai_jobs SET status = ... WHERE id = ...
UpdateJobStatus ==
    /\ \E j \in ai_jobs, status \in Varchars \cup {SqlNull} :
         /\ status # SqlNull
         /\ status # j.status
         /\ ai_jobs' = (ai_jobs \ {j}) \cup {[j EXCEPT !.status = status]}
    /\ UNCHANGED <<dbPc, permissions, roles, role_permissions, users, user_roles>>

InitDb ==
    /\ dbPc = "create tables"
    /\ permissions = {}
    /\ roles = {}
    /\ role_permissions = {}
    /\ users = {}
    /\ user_roles = {}
    /\ ai_jobs = {}

(***************************************************************************)
(* The useApi hook (hooks/useApi.ts) over the ApiClient (lib/api/client.ts)*)
(* and the two components that await its execute(): DocumentUploader and   *)
(* Chat.                                                                   *)
(***************************************************************************)
MaxCalls == 2

Components == {"DocumentUploader", "Chat"}

JsUndefined == "<undefined>"

\* JavaScript truthiness of a string-or-missing value
JsTruthy(v) == v \notin {JsUndefined, Null, ""}

\* a || b
JsOr(a, b) == IF JsTruthy(a) THEN a ELSE b

\* e.name for an object e: undefined when e has no such property
Prop(e, name) == IF name \in DOMAIN e THEN e[name] ELSE JsUndefined

\* the files a user can choose, an empty selection included
NoFile == "<no file>"
ChosenFiles == {NoFile, "a.pdf"}

\* what the user can have typed into the chat input
Inputs == {<<>>, <<" ">>, <<"q">>, <<" ", "q">>}

RECURSIVE TrimStart(_)
TrimStart(str) ==
    IF str # <<>> /\ Head(str) = " " THEN TrimStart(Tail(str)) ELSE str

RECURSIVE TrimEnd(_)
TrimEnd(str) ==
    IF str # <<>> /\ str[Len(str)] = " "
    THEN TrimEnd(SubSeq(str, 1, Len(str) - 1))
    ELSE str

\* String.prototype.trim
Trim(str) == TrimEnd(TrimStart(str))

\* the errors axios can hand to the response interceptor: an HTTP error
\* whose body carries a detail, one whose body carries none, and a failure
\* without any response (network error)
AxiosErrors ==
    { [hasResponse |-> TRUE,  status |-> 413, detail |-> "File too large"],
      [hasResponse |-> TRUE,  status |-> 502, detail |-> JsUndefined],
      [hasResponse |-> FALSE, status |-> 0,   detail |-> JsUndefined] }

\* the response interceptor of ApiClient: the promise is rejected with
\*   { error: error.response?.data?.detail || 'An unexpected error occurred',
\*     status: error.response?.status || 500 }
Interceptor(error) ==
    [error  |-> IF error.hasResponse
                THEN JsOr(error.detail, "An unexpected error occurred")
                ELSE "An unexpected error occurred",
     status |-> IF error.hasResponse /\ error.status # 0
                THEN error.status ELSE 500]

\* new Error(message)
JsError(message) == [message |-> message]

\* the body of a 2xx answer to the call: the uploaded document's metadata or
\* the generated response, or an empty body
Bodies(c, arg) ==
    IF c = "DocumentUploader" THEN {arg, ""} ELSE {"answer", ""}

NoApiError == [message |-> Null, code |-> Null, details |-> Null]

NoHookCall ==
    [pc |-> "idle", arg |-> JsUndefined, axios |-> JsUndefined,
     outcome |-> "none", value |-> [status |-> 0],
     before |-> [data |-> Null, loading |-> FALSE, error |-> NoApiError],
     ret |-> [defined |-> FALSE, data |-> JsUndefined]]

\* execute(...args), up to its await:
\*   setState(prev => ({...prev, loading: true, error: null})); apiMethod(...args)
Execute(c, arg) ==
    /\ hkCall[c].pc \in {"idle", "resumed"}
    /\ hkCalls[c] < MaxCalls
    /\ hkCalls' = [hkCalls EXCEPT ![c] = @ + 1]
    /\ hooks' = [hooks EXCEPT ![c].loading = TRUE, ![c].error = NoApiError]
    /\ hkCall' = [hkCall EXCEPT ![c] =
                     [NoHookCall EXCEPT !.pc = "sent", !.arg = arg,
                                        !.before = hooks[c]]]

\* DocumentUploader.handleFileChange: const file = event.target.files?.[0];
\* if (!file) return; ... await uploadDocument(file)
HandleFileChange ==
    \E file \in ChosenFiles :
      /\ file # NoFile
      /\ Execute("DocumentUploader", file)
      /\ UNCHANGED <<documents, messages>>

\* Chat.handleSubmit: if (!input.trim() || loading) return; the user's message
\* is appended; ... await generateResponse({query: input})
HandleSubmit ==
    \E input \in Inputs :
      /\ Trim(input) # <<>>
      /\ ~hooks["Chat"].loading
      /\ Execute("Chat", input)
      /\ messages' = Append(messages, [role |-> "user", content |-> input])
      /\ UNCHANGED documents

\* the ApiClient method settles: it resolves with
\* {data: response.data, status: response.status}, or the interceptor's
\* rejection goes through it
ApiMethodSettles(c) ==
    /\ hkCall[c].pc = "sent"
    /\ \/ \E body \in Bodies(c, hkCall[c].arg) :
            hkCall' = [hkCall EXCEPT ![c].pc = "answered",
                                     ![c].outcome = "resolved",
                                     ![c].value = [data |-> body, status |-> 200]]
       \/ \E error \in AxiosErrors :
            hkCall' = [hkCall EXCEPT ![c].pc = "answered",
                                     ![c].outcome = "rejected",
                                     ![c].axios = error,
                                     ![c].value = Interceptor(error)]
    /\ UNCHANGED <<hooks, hkCalls, documents, messages>>

\* what the catch block of execute makes of the value it caught
ApiErrorOf(error) ==
    [message |-> JsOr(Prop(error, "message"), "An unexpected error occurred"),
     code    |-> JsOr(Prop(error, "code"), "UNKNOWN_ERROR"),
     details |-> Prop(error, "details")]

\* execute after its await: the try block's if/else, the catch block, and the
\* end of the function, which returns nothing (Promise<void>)
ExecuteSettles(c) ==
    /\ hkCall[c].pc = "answered"
    /\ LET o == hkCall[c]
           gotData == o.outcome = "resolved" /\ JsTruthy(o.value.data)
           caught == IF o.outcome = "resolved"
                     THEN JsError("No data received")
                     ELSE o.value
       IN  hooks' = [hooks EXCEPT ![c] =
                        IF gotData
                        THEN [data |-> o.value.data, loading |-> FALSE,
                              error |-> NoApiError]
                        ELSE [@ EXCEPT !.loading = FALSE,
                                       !.error = ApiErrorOf(caught)]]
    /\ hkCall' = [hkCall EXCEPT ![c].pc = "settled",
                                ![c].ret = [defined |-> FALSE, data |-> JsUndefined]]
    /\ UNCHANGED <<hkCalls, documents, messages>>

\* response?.data
OptionalData(response) ==
    IF response.defined THEN response.data ELSE JsUndefined

\* the component after `const response = await execute(...)`:
\* DocumentUploader: if (response?.data) addDocument(response.data)
\* Chat: if (response?.data) setMessages(prev => [...prev, assistantMessage])
ComponentResumes(c) ==
    /\ hkCall[c].pc = "settled"
    /\ hkCall' = [hkCall EXCEPT ![c].pc = "resumed"]
    /\ LET data == OptionalData(hkCall[c].ret)
       IN  /\ documents' = IF c = "DocumentUploader" /\ JsTruthy(data)
                           THEN Append(documents, data) ELSE documents
           /\ messages' = IF c = "Chat" /\ JsTruthy(data)
                          THEN Append(messages, [role |-> "assistant",
                                                 content |-> data])
                          ELSE messages
    /\ UNCHANGED <<hooks, hkCalls>>

InitHook ==
    /\ hooks = [c \in Components |->
                  [data |-> Null, loading |-> FALSE, error |-> NoApiError]]
    /\ hkCall = [c \in Components |-> NoHookCall]
    /\ hkCalls = [c \in Components |-> 0]
    /\ documents = <<>>
    /\ messages = <<>>

(***************************************************************************)
(* The deduplicating FileUploader component: onDrop uploads the files of a *)
(* drop through storageApi.uploadFile.                                     *)
(***************************************************************************)
MaxDrop == 3        \* files in one drop
MaxBatches == 2     \* drops

FileNames == {"a", "b"}

\* the acceptedFiles a drop can hand to onDrop, the empty list included
Drops == UNION {[1..n -> FileNames] : n \in 0..MaxDrop}

\* mutation: a failed upload of a file that is not the last one is skipped
AfterUpload_skipFailed(ok, i, n) ==
    IF i < n THEN "next file"
    ELSE IF ok THEN "onUploadComplete" ELSE "catch"

\* where control goes when the await of file i of n settles: a rejection
\* leaves the for loop for the catch block, a success goes on with the next
\* file or, after the last one, leaves the loop for onUploadComplete?.()
AfterUpload(ok, i, n) ==
    IF ~ok THEN "catch"
    ELSE IF i < n THEN "next file" ELSE "onUploadComplete"

\* onDrop(acceptedFiles), up to the first await. The dropzone is disabled
\* while uploading. progress is kept in units of (100 / acceptedFiles.length)
\* * 0.1 percent: the two setProgress calls of an iteration add 1 and 9.
OnDrop ==
    /\ dzPc \in {"idle", "ended"}
    /\ ~uploading
    /\ dzDrops < MaxBatches
    /\ dzDrops' = dzDrops + 1
    /\ \E acceptedFiles \in Drops :
         /\ dzFiles' = acceptedFiles
         /\ dzOutcomes' = <<>>
         /\ dzCompleted' = 0
         /\ IF Len(acceptedFiles) = 0
            THEN /\ dzPc' = "ended"
                 /\ dzAttempts' = <<>>
                 /\ UNCHANGED <<uploading, progress, dzIdx, dzInFlight, dzToast>>
            ELSE /\ uploading' = TRUE
                 /\ progress' = 0 + 1
                 /\ dzIdx' = 1
                 /\ dzAttempts' = <<acceptedFiles[1]>>
                 /\ dzInFlight' = dzInFlight + 1
                 /\ dzPc' = "awaiting"
                 /\ UNCHANGED dzToast
    /\ UNCHANGED <<dzReply, srvUploads>>

\* POST /upload/ is answered: the file is stored (as a new file or as a
\* duplicate of a stored one) and the call resolves, or the call rejects
UploadFileAnswered ==
    /\ dzPc = "awaiting"
    /\ \/ \E dup \in BOOLEAN :
            /\ srvUploads' = Append(srvUploads, dzFiles[dzIdx])
            /\ dzReply' = [ok |-> TRUE, is_duplicate |-> dup]
       \/ /\ dzReply' = [ok |-> FALSE, is_duplicate |-> FALSE]
          /\ UNCHANGED srvUploads
    /\ dzPc' = "answered"
    /\ dzInFlight' = dzInFlight - 1
    /\ UNCHANGED <<dzFiles, dzIdx, dzAttempts, dzOutcomes, dzCompleted, dzDrops,
                   dzToast, uploading, progress>>

\* onDrop after an await: the rest of the iteration, then the next iteration
\* up to its await, or the end of the try block, the catch block, and finally
OnDropResumes ==
    /\ dzPc = "answered"
    /\ dzOutcomes' = Append(dzOutcomes, IF dzReply.ok THEN "ok" ELSE "failed")
    /\ LET n == Len(dzFiles)
           step == AfterUpload(dzReply.ok, dzIdx, n)
           toasted == IF ~dzReply.ok THEN dzToast
                      ELSE IF dzReply.is_duplicate THEN "success: deduplicated"
                      ELSE "success: uploaded"
           added == IF dzReply.ok THEN progress + 9 ELSE progress
       IN  IF step = "next file"
           THEN /\ dzToast' = toasted
                /\ progress' = added + 1
                /\ dzIdx' = dzIdx + 1
                /\ dzAttempts' = Append(dzAttempts, dzFiles[dzIdx + 1])
                /\ dzInFlight' = dzInFlight + 1
                /\ dzPc' = "awaiting"
                /\ UNCHANGED <<uploading, dzCompleted>>
           ELSE /\ dzToast' = IF step = "catch" THEN "error" ELSE toasted
                /\ dzCompleted' = IF step = "onUploadComplete"
                                  THEN dzCompleted + 1 ELSE dzCompleted
                /\ uploading' = FALSE
                /\ progress' = 0
                /\ dzPc' = "ended"
                /\ UNCHANGED <<dzIdx, dzAttempts, dzInFlight>>
    /\ UNCHANGED <<dzFiles, dzReply, dzDrops, srvUploads>>

InitDrop ==
    /\ dzPc = "idle"
    /\ dzFiles = <<>>
    /\ dzIdx = 0
    /\ dzReply = [ok |-> TRUE, is_duplicate |-> FALSE]
    /\ dzAttempts = <<>>
    /\ dzOutcomes = <<>>
    /\ dzInFlight = 0
    /\ dzCompleted = 0
    /\ dzDrops = 0
    /\ dzToast = "none"
    /\ uploading = FALSE
    /\ progress = 0
    /\ srvUploads = <<>>

(***************************************************************************)
(* The load test's retryRequest (tests/load/scenarios.js)                  *)
(***************************************************************************)
MaxRetries == 3

\* what one call of requestFn can do: return a response with some status
\* (k6 reports a request that got no answer as status 0) or throw
RequestOutcomes ==
    [kind : {"response"}, status : {0, 200, 404, 499, 500, 503}, error : {""}]
        \cup [kind : {"throw"}, status : {0}, error : {"e1", "e2"}]

NoOutcome == [kind |-> "none", status |-> 0, error |-> ""]

\* mutation: a 500 is returned like a client error
IsReturned_inclusive(status) == status <= 500

\* if (response.status < 500) return response
IsReturned(status) == status < 500

\* retryRequest(requestFn, maxRetries): let retries = 0; let lastError;
RetryRequest ==
    /\ rrPc = "idle"
    /\ \E maxRetries \in 0..MaxRetries : rrMax' = maxRetries
    /\ retries' = 0
    /\ lastError' = JsUndefined
    /\ rrPc' = "while"
    /\ UNCHANGED <<rrLog, rrResult, rrSleeps>>

\* one turn of the while loop: requestFn is called; a response that
\* IsReturned ends the function, anything else (a thrown error is kept in
\* lastError) counts a retry, followed by sleep(1) unless it was the last
Attempt ==
    /\ rrPc = "while"
    /\ retries < rrMax
    /\ \E outcome \in RequestOutcomes :
         /\ rrLog' = Append(rrLog, outcome)
         /\ IF outcome.kind = "response" /\ IsReturned(outcome.status)
            THEN /\ rrResult' = [outcome EXCEPT !.kind = "return"]
                 /\ rrPc' = "returned"
                 /\ UNCHANGED <<retries, lastError, rrSleeps>>
            ELSE /\ lastError' = IF outcome.kind = "throw"
                                 THEN outcome.error ELSE lastError
                 /\ retries' = retries + 1
                 /\ rrSleeps' = IF retries + 1 < rrMax
                                THEN rrSleeps + 1 ELSE rrSleeps
                 /\ UNCHANGED <<rrResult, rrPc>>
    /\ UNCHANGED rrMax

\* the loop has ended:
\* throw lastError || new Error('Request failed after multiple retries')
ThrowAfterRetries ==
    /\ rrPc = "while"
    /\ ~(retries < rrMax)
    /\ rrResult' = [kind |-> "throw", status |-> 0,
                    error |-> JsOr(lastError, "Request failed after multiple retries")]
    /\ rrPc' = "thrown"
    /\ UNCHANGED <<rrMax, retries, lastError, rrLog, rrSleeps>>

InitRetry ==
    /\ rrPc = "idle"
    /\ rrMax = 0
    /\ retries = 0
    /\ lastError = JsUndefined
    /\ rrLog = <<>>
    /\ rrResult = NoOutcome
    /\ rrSleeps = 0

InitProxy ==
    /\ pxPc = "idle"
    /\ pxReq = NoReq
    /\ pxFetch = NoFetch
    /\ pxBackend = NoAnswer
    /\ pxResp = NoResp

Init ==
    /\ InitProxy /\ InitAuth /\ IdleUpload /\ InitStore /\ InitRate /\ InitDb
    /\ InitMiddleware /\ InitHook /\ InitDrop /\ InitRetry

NextProxy ==
    \/ GET /\ UNCHANGED <<auVars, upVars, stVars, rlVars, dbVars, mwVars, ckVars, hkVars, dzVars, rrVars>>
    \/ POST /\ UNCHANGED <<auVars, upVars, stVars, rlVars, dbVars, mwVars, ckVars, hkVars, dzVars, rrVars>>
    \/ DELETE /\ UNCHANGED <<auVars, upVars, stVars, rlVars, dbVars, mwVars, ckVars, hkVars, dzVars, rrVars>>
    \/ ProxyReturn /\ UNCHANGED <<auVars, upVars, stVars, rlVars, dbVars, mwVars, ckVars, hkVars, dzVars, rrVars>>

SpecProxy == Init /\ [][NextProxy]_vars

NextAuth ==
    \/ UseAuthLogin /\ UNCHANGED <<pxVars, upVars, stVars, rlVars, dbVars, mwVars, ckVars, hkVars, dzVars, rrVars>>
    \/ LoginPageSubmit /\ UNCHANGED <<pxVars, upVars, stVars, rlVars, dbVars, mwVars, ckVars, hkVars, dzVars, rrVars>>
    \/ RegisterPageSubmit /\ UNCHANGED <<pxVars, upVars, stVars, rlVars, dbVars, mwVars, ckVars, hkVars, dzVars, rrVars>>
    \/ FeatureLogin /\ UNCHANGED <<pxVars, upVars, stVars, rlVars, dbVars, mwVars, ckVars, hkVars, dzVars, rrVars>>
    \/ ProviderLogout /\ UNCHANGED <<pxVars, upVars, stVars, rlVars, dbVars, mwVars, ckVars, hkVars, dzVars, rrVars>>
    \/ ApiRequest /\ UNCHANGED <<pxVars, upVars, stVars, rlVars, dbVars, mwVars, ckVars, hkVars, dzVars, rrVars>>
    \/ ApiClientRequest /\ UNCHANGED <<pxVars, upVars, stVars, rlVars, dbVars, mwVars, ckVars, hkVars, dzVars, rrVars>>
    \/ ApiResponse /\ UNCHANGED <<pxVars, upVars, stVars, rlVars, dbVars, mwVars, ckVars, hkVars, dzVars, rrVars>>
    \/ ApiClientResponse /\ UNCHANGED <<pxVars, upVars, stVars, rlVars, dbVars, mwVars, ckVars, hkVars, dzVars, rrVars>>
    \/ AuthServiceResponse /\ UNCHANGED <<pxVars, upVars, stVars, rlVars, dbVars, mwVars, ckVars, hkVars, dzVars, rrVars>>
    \/ FeatureLoginResponse /\ UNCHANGED <<pxVars, upVars, stVars, rlVars, dbVars, mwVars, ckVars, hkVars, dzVars, rrVars>>
    \/ AuthAPILogout /\ UNCHANGED <<pxVars, upVars, stVars, rlVars, dbVars, mwVars, ckVars, hkVars, dzVars, rrVars>>
    \/ FeatureLogout /\ UNCHANGED <<pxVars, upVars, stVars, rlVars, dbVars, mwVars, ckVars, hkVars, dzVars, rrVars>>
    \/ CheckAuthResponse /\ UNCHANGED <<pxVars, upVars, stVars, rlVars, dbVars, mwVars, hkVars, dzVars, rrVars>>

SpecAuth == Init /\ [][NextAuth]_vars

NextUpload ==
    \/ Start /\ UNCHANGED <<pxVars, auVars, stVars, rlVars, dbVars, mwVars, ckVars, hkVars, dzVars, rrVars>>
    \/ UploadConfigResponse /\ UNCHANGED <<pxVars, auVars, stVars, rlVars, dbVars, mwVars, ckVars, hkVars, dzVars, rrVars>>
    \/ FormPostResponse /\ UNCHANGED <<pxVars, auVars, stVars, rlVars, dbVars, mwVars, ckVars, hkVars, dzVars, rrVars>>
    \/ ObjectMetadataResponse /\ UNCHANGED <<pxVars, auVars, stVars, rlVars, dbVars, mwVars, ckVars, hkVars, dzVars, rrVars>>
    \/ CreateMultipartResponse /\ UNCHANGED <<pxVars, auVars, stVars, rlVars, dbVars, mwVars, ckVars, hkVars, dzVars, rrVars>>
    \/ \E i \in DOMAIN upPartPc : PartStored(i) /\ UNCHANGED <<pxVars, auVars, stVars, rlVars, dbVars, mwVars, ckVars, hkVars, dzVars, rrVars>>
    \/ \E i \in DOMAIN upPartPc : PartUploaded(i) /\ UNCHANGED <<pxVars, auVars, stVars, rlVars, dbVars, mwVars, ckVars, hkVars, dzVars, rrVars>>
    \/ \E i \in DOMAIN upPartPc : PartFailed(i) /\ UNCHANGED <<pxVars, auVars, stVars, rlVars, dbVars, mwVars, ckVars, hkVars, dzVars, rrVars>>
    \/ CompleteStored /\ UNCHANGED <<pxVars, auVars, stVars, rlVars, dbVars, mwVars, ckVars, hkVars, dzVars, rrVars>>
    \/ CompleteResponse /\ UNCHANGED <<pxVars, auVars, stVars, rlVars, dbVars, mwVars, ckVars, hkVars, dzVars, rrVars>>
    \/ Abort /\ UNCHANGED <<pxVars, auVars, stVars, rlVars, dbVars, mwVars, ckVars, hkVars, dzVars, rrVars>>

\* a FileUploader is constructed for any file and chunk size
InitWithUpload ==
    /\ InitProxy /\ InitAuth /\ InitUpload /\ InitStore /\ InitRate /\ InitDb
    /\ InitMiddleware /\ InitHook /\ InitDrop /\ InitRetry

SpecUpload == InitWithUpload /\ [][NextUpload]_vars

NextStore ==
    \/ \E i \in 1..MaxOps : FetchFiles(i) /\ UNCHANGED <<pxVars, auVars, upVars, rlVars, dbVars, mwVars, ckVars, hkVars, dzVars, rrVars>>
    \/ \E i \in 1..MaxOps : UploadFile(i) /\ UNCHANGED <<pxVars, auVars, upVars, rlVars, dbVars, mwVars, ckVars, hkVars, dzVars, rrVars>>
    \/ \E i \in 1..MaxOps : DeleteFile(i) /\ UNCHANGED <<pxVars, auVars, upVars, rlVars, dbVars, mwVars, ckVars, hkVars, dzVars, rrVars>>
    \/ \E i \in 1..MaxOps : SearchFiles(i) /\ UNCHANGED <<pxVars, auVars, upVars, rlVars, dbVars, mwVars, ckVars, hkVars, dzVars, rrVars>>
    \/ \E i \in 1..MaxOps : UseFilesUpload(i) /\ UNCHANGED <<pxVars, auVars, upVars, rlVars, dbVars, mwVars, ckVars, hkVars, dzVars, rrVars>>
    \/ \E i \in 1..MaxOps : ServerAnswers(i) /\ UNCHANGED <<pxVars, auVars, upVars, rlVars, dbVars, mwVars, ckVars, hkVars, dzVars, rrVars>>
    \/ \E i \in 1..MaxOps : ListSettled(i) /\ UNCHANGED <<pxVars, auVars, upVars, rlVars, dbVars, mwVars, ckVars, hkVars, dzVars, rrVars>>
    \/ \E i \in 1..MaxOps : MainSettled(i) /\ UNCHANGED <<pxVars, auVars, upVars, rlVars, dbVars, mwVars, ckVars, hkVars, dzVars, rrVars>>
    \/ \E i \in 1..MaxOps : MutationStep(i) /\ UNCHANGED <<pxVars, auVars, upVars, rlVars, dbVars, mwVars, ckVars, hkVars, dzVars, rrVars>>
    \/ QueryAnswered /\ UNCHANGED <<pxVars, auVars, upVars, rlVars, dbVars, mwVars, ckVars, hkVars, dzVars, rrVars>>
    \/ QuerySettled /\ UNCHANGED <<pxVars, auVars, upVars, rlVars, dbVars, mwVars, ckVars, hkVars, dzVars, rrVars>>

SpecStore == Init /\ [][NextStore]_vars

NextRate ==
    \/ \E w \in Workers : CheckRateLimit(w) /\ UNCHANGED <<pxVars, auVars, upVars, stVars, dbVars, mwVars, ckVars, hkVars, dzVars, rrVars>>
    \/ \E w \in Workers : Admit(w) /\ UNCHANGED <<pxVars, auVars, upVars, stVars, dbVars, mwVars, ckVars, hkVars, dzVars, rrVars>>
    \/ Tick /\ UNCHANGED <<pxVars, auVars, upVars, stVars, dbVars, mwVars, ckVars, hkVars, dzVars, rrVars>>

SpecRate == Init /\ [][NextRate]_vars

NextDb ==
    \/ CreateTables /\ UNCHANGED <<pxVars, auVars, upVars, stVars, rlVars, mwVars, ckVars, hkVars, dzVars, rrVars>>
    \/ InsertPermissions /\ UNCHANGED <<pxVars, auVars, upVars, stVars, rlVars, mwVars, ckVars, hkVars, dzVars, rrVars>>
    \/ InsertRoles /\ UNCHANGED <<pxVars, auVars, upVars, stVars, rlVars, mwVars, ckVars, hkVars, dzVars, rrVars>>
    \/ GrantAdminPermissions /\ UNCHANGED <<pxVars, auVars, upVars, stVars, rlVars, mwVars, ckVars, hkVars, dzVars, rrVars>>
    \/ GrantUserPermissions /\ UNCHANGED <<pxVars, auVars, upVars, stVars, rlVars, mwVars, ckVars, hkVars, dzVars, rrVars>>
    \/ InsertAdminUser /\ UNCHANGED <<pxVars, auVars, upVars, stVars, rlVars, mwVars, ckVars, hkVars, dzVars, rrVars>>
    \/ AssignAdminRole /\ UNCHANGED <<pxVars, auVars, upVars, stVars, rlVars, mwVars, ckVars, hkVars, dzVars, rrVars>>
    \/ InsertJob /\ UNCHANGED <<pxVars, auVars, upVars, stVars, rlVars, mwVars, ckVars, hkVars, dzVars, rrVars>>
    \/ UpdateJobStatus /\ UNCHANGED <<pxVars, auVars, upVars, stVars, rlVars, mwVars, ckVars, hkVars, dzVars, rrVars>>

SpecDb == Init /\ [][NextDb]_vars

\* a browser opens the application with any cookie 'token', and with or
\* without an access token that an earlier login stored
InitNav ==
    /\ InitProxy /\ IdleUpload /\ InitStore /\ InitRate /\ InitDb /\ InitHook
    /\ InitDrop /\ InitRetry
    /\ \E token \in {Null, "t1"} :
          localStorage = [k \in {"accessToken", "auth_token"} |->
                             IF k = "accessToken" THEN token ELSE Null]
    /\ user = Null
    /\ featUser = Null
    /\ location \in Pages
    /\ accounts = {}
    /\ call = NoCall
    /\ settled = Settle(NoCall, 0)
    /\ session = Null
    /\ authCheck = "sent"
    /\ cookieToken \in CookieValues
    /\ mwPc = "requested"
    /\ mwReq = [token |-> NoCookie, pathname |-> <<>>, matched |-> FALSE]
    /\ mwResp = NextResponseNext
    /\ mwAfter401 = FALSE

NextNav ==
    \/ Navigate /\ UNCHANGED <<pxVars, upVars, stVars, rlVars, dbVars, ckVars, hkVars, dzVars, rrVars>>
    \/ HandleRequest /\ UNCHANGED <<pxVars, upVars, stVars, rlVars, dbVars, ckVars, hkVars, dzVars, rrVars>>
    \/ PageRequest /\ UNCHANGED <<pxVars, upVars, stVars, rlVars, dbVars, ckVars, hkVars, dzVars, rrVars>>
    \/ PageResponse /\ UNCHANGED <<pxVars, upVars, stVars, rlVars, dbVars, ckVars, hkVars, dzVars, rrVars>>

SpecNav == InitNav /\ [][NextNav]_vars

NextHook ==
    \/ HandleFileChange /\ UNCHANGED <<pxVars, auVars, upVars, stVars, rlVars, dbVars, mwVars, ckVars, dzVars, rrVars>>
    \/ HandleSubmit /\ UNCHANGED <<pxVars, auVars, upVars, stVars, rlVars, dbVars, mwVars, ckVars, dzVars, rrVars>>
    \/ \E c \in Components : ApiMethodSettles(c) /\ UNCHANGED <<pxVars, auVars, upVars, stVars, rlVars, dbVars, mwVars, ckVars, dzVars, rrVars>>
    \/ \E c \in Components : ExecuteSettles(c) /\ UNCHANGED <<pxVars, auVars, upVars, stVars, rlVars, dbVars, mwVars, ckVars, dzVars, rrVars>>
    \/ \E c \in Components : ComponentResumes(c) /\ UNCHANGED <<pxVars, auVars, upVars, stVars, rlVars, dbVars, mwVars, ckVars, dzVars, rrVars>>

SpecHook == Init /\ [][NextHook]_vars

NextDrop ==
    \/ OnDrop /\ UNCHANGED <<pxVars, auVars, upVars, stVars, rlVars, dbVars, mwVars, ckVars, hkVars, rrVars>>
    \/ UploadFileAnswered /\ UNCHANGED <<pxVars, auVars, upVars, stVars, rlVars, dbVars, mwVars, ckVars, hkVars, rrVars>>
    \/ OnDropResumes /\ UNCHANGED <<pxVars, auVars, upVars, stVars, rlVars, dbVars, mwVars, ckVars, hkVars, rrVars>>

SpecDrop == Init /\ [][NextDrop]_vars

NextRetry ==
    \/ RetryRequest /\ UNCHANGED <<pxVars, auVars, upVars, stVars, rlVars, dbVars, mwVars, ckVars, hkVars, dzVars>>
    \/ Attempt /\ UNCHANGED <<pxVars, auVars, upVars, stVars, rlVars, dbVars, mwVars, ckVars, hkVars, dzVars>>
    \/ ThrowAfterRetries /\ UNCHANGED <<pxVars, auVars, upVars, stVars, rlVars, dbVars, mwVars, ckVars, hkVars, dzVars>>

SpecRetry == Init /\ [][NextRetry]_vars

(***************************************************************************)
(* Claims about the API proxy (checked under SpecProxy)                    *)
(***************************************************************************)
\* what the backend's answer is as a JSON body: an empty text is "no body"
BackendBody == IF pxBackend.text = "" THEN {} ELSE JSONparse(pxBackend.text)

\* C1: for every GET, POST and DELETE the proxy answers with the backend's
\* status code and the backend's JSON body, whatever the backend answered.
C1_PassThrough ==
    (pxPc = "done" /\ pxBackend.kind = "http" /\ BackendBody # SyntaxError)
        => (pxResp.status = pxBackend.status /\ pxResp.body = BackendBody)

\* C2 (as stated): the forwarded request carries an Authorization header if
\* and only if the incoming request carries one, with the identical value.
C2_AuthIffPresent ==
    pxFetch.method # "none" => pxFetch.auth = pxReq.auth

\* C2 (amended): the forwarded request carries an Authorization header if and
\* only if the incoming request carries a non-empty one, with the identical
\* value; an Authorization header whose value is empty is not forwarded.
C2_AuthIffNonEmpty ==
    pxFetch.method # "none" =>
        /\ (pxReq.auth \notin {NoHeader, ""} => pxFetch.auth = pxReq.auth)
        /\ (pxReq.auth \in {NoHeader, ""} => pxFetch.auth = NoHeader)

C2_Witness ==
    /\ pxPc = "fetching"
    /\ pxReq.method = "DELETE"
    /\ pxReq.auth = "Bearer t2"
    /\ pxFetch.auth = "Bearer t2"

\* the proxy answers with an error: the backend was not OK or the handler threw
ProxyErrorResponse ==
    /\ pxPc = "done"
    /\ \/ pxBackend.kind = "network"
       \/ pxBackend.kind = "http" /\ ~Ok(pxBackend.status)
       \/ pxBackend.kind = "http" /\ pxBackend.status # 204
                                  /\ JSONparse(pxBackend.text) = SyntaxError
       \/ pxFetch.method = "none"

\* C6: every error response of the proxy has the body
\* {error: {code, message, details}}.
C6_ErrorEnvelope ==
    ProxyErrorResponse => IsErrorEnvelope(pxResp.body)

\* C9: for GET, POST and DELETE, /api/<path>?<query> is forwarded to
\* <API_URL>/api/v1/<path>?<query>: path and query parameters are unchanged.
C9_PathAndQuery ==
    pxFetch.method # "none" =>
        /\ pxFetch.url = <<API_URL, "/", "api", "/", "v1", "/">>
                            \o SubSeq(pxReq.pathname, 4, Len(pxReq.pathname))
        /\ pxFetch.search = ParseQuery(pxReq.query)

(***************************************************************************)
(* Claims about the browser session (checked under SpecAuth)               *)
(***************************************************************************)
\* C3: after a successful login every later request through lib/api.ts and
\* lib/api-client.ts carries 'Authorization: Bearer <token of that login>',
\* until a logout or a 401 clears the token.
C3_BearerAfterLogin ==
    (call.client \in {"api", "apiClient"} /\ call.sess # Null)
        => call.auth = Bearer(call.sess)

\* C5: after RegisterPage registered (e, p), submitting LoginPage with the
\* same e and p sends exactly these credentials to the backend.
C5_LoginAfterRegister ==
    (call.fn = "authService.login" /\ call.form \in accounts)
        => call.sent = call.form

\* C7 (as stated): one call of an API client function makes at most one HTTP
\* request, whatever status the server returns.
C7_NeverReissued ==
    call.attempts <= 1 /\ settled.attempts <= 1

\* C7 (amended): a call through lib/api.ts, services/auth.ts or plain axios
\* makes exactly one HTTP request whatever the status; a call through
\* lib/api-client.ts is sent a second time only after a 401 answer to its
\* first request, and never a third time.
C7_ReissuedOnlyOn401 ==
    /\ \A c \in {Settle(call, call.status), settled} :
          /\ c.attempts <= 2
          /\ c.attempts = 2 => (c.client = "apiClient" /\ c.retry)
          /\ (c.client # "apiClient" /\ c.fn # "none") => c.attempts = 1
    /\ call.attempts = 2 => call.status = 401

C7_Witness ==
    /\ settled.client = "api"
    /\ settled.status = 500
    /\ settled.attempts = 1
    /\ call.client = "apiClient"
    /\ call.attempts = 2

\* C17: in lib/api-client.ts a request answered with 401 is re-sent at most
\* once: the first 401 marks the request _retry and re-issues it, a second 401
\* on the same request is rejected to the caller, so one call makes at most
\* two HTTP attempts; a response with any other error status is rejected
\* without a retry.
C17_RetryAtMostOnce ==
    /\ \A c \in {Settle(call, call.status), settled} :
          c.client = "apiClient" =>
             /\ c.attempts \in {1, 2}
             /\ c.retry <=> c.attempts = 2
    /\ (call.client = "apiClient" /\ call.retry) => call.status = 401
    /\ (settled.client = "apiClient" /\ settled.status = 401)
          => (settled.retry /\ settled.attempts = 2)
    /\ (settled.client = "apiClient" /\ settled.attempts = 1)
          => settled.status # 401

C17_Witness ==
    /\ settled.client = "apiClient"
    /\ settled.status = 401
    /\ settled.attempts = 2
    /\ call.client = "apiClient"
    /\ call.attempts = 1

\* C19: after logout() of an AuthProvider has resolved, whatever the server
\* answered, user is null, the stored access token is gone, and no later
\* request through lib/api.ts carries an Authorization header.  Stated for
\* the logout that asks the server, that of contexts/AuthContext.
C19_LoggedOutAfterLogout ==
    settled.fn = "authService.logout" =>
        /\ user = Null
        /\ localStorage["accessToken"] = Null
        /\ call.client = "api" => call.auth = NoAuth

\* C20: in the AuthProvider of contexts/AuthContext, once login() or
\* register() has set the user, the user stays non-null until logout()
\* succeeds; the checkAuth request started on mount never resets it.
C20_UserStaysSet ==
    [][ (user # Null /\ user' = Null)
           => (call.fn = "authService.logout" /\ call' = NoCall) ]_vars

(***************************************************************************)
(* Claims about the FileUploader (checked under SpecUpload)                *)
(***************************************************************************)
\* C4: once start() has resolved, single-part or multipart, the object the
\* server holds under (bucket, key) equals the file byte for byte.
C4_UploadRoundTrip ==
    upPc = "resolved" => srvObject = upFile

\* completeMultipartUpload has been invoked
CompleteInvoked == upPc = "multi:complete" \/ upCompleteReq # <<>>

\* C14: in a multipart upload completeMultipartUpload is invoked only after
\* every part upload has succeeded, and the parts list it sends has exactly
\* one entry per chunk, in ascending part_number order 1..n, whatever the
\* order in which the part uploads finish.
C14_PartsAscending ==
    CompleteInvoked =>
        /\ \A i \in DOMAIN upPartPc : upPartPc[i] = "done"
        /\ Len(upCompleteReq) = Len(TheChunks)
        /\ \A i \in 1..Len(upCompleteReq) : upCompleteReq[i].part_number = i

\* C15: if an upload started with start() fails at any step, onError is
\* called exactly once, the promise returned by start() rejects, and
\* onComplete is never called.
C15_OnErrorExactlyOnce ==
    upPc = "rejected" =>
        (upCallbacks.onError = 1 /\ upCallbacks.onComplete = 0)

\* C16: when abort() is called on a FileUploader performing a multipart
\* upload, abortMultipartUpload is invoked with every upload_id that
\* createMultipartUpload returns for it, whether it returns before or after
\* abort() is called, and completeMultipartUpload is not invoked after abort().
C16_AbortReachesServer ==
    /\ []( (upAbortReq.at \in {"multi:create", "multi:parts"} /\ upUploadId # Null)
              => upAbortReq.upload_id = upUploadId )
    /\ [][ upAborted => upCompleteReq' = upCompleteReq ]_vars

(***************************************************************************)
(* Claims about the file store and the useFiles hook (under SpecStore)     *)
(***************************************************************************)
\* the document was deleted on the server by a deleteFile call
Deleted(d) ==
    \E j \in 1..MaxOps : ops[j].fn = "deleteFile" /\ ops[j].arg = d /\ ops[j].stored

InFlight(i) ==
    /\ ops[i].fn \in {"fetchFiles", "uploadFile", "deleteFile", "searchFiles"}
    /\ ops[i].pc # "done"

\* C21: in useStore, isLoading is true whenever at least one of fetchFiles,
\* uploadFile, deleteFile or searchFiles is still in flight, also when several
\* overlap or a nested fetchFiles runs; it is false only when none is.
C21_LoadingWhileInFlight ==
    stIsLoading <=> \E i \in 1..MaxOps : InFlight(i)

\* C22: when fetchFiles is called for path A and then for path B and both
\* calls have settled successfully, the store holds currentPath = B and
\* files = the listing of B, whichever response arrived first.
C22_NewestFetchWins ==
    (\A i \in 1..MaxOps : /\ ops[i].fn = "fetchFiles"
                          /\ ops[i].pc = "done"
                          /\ ops[i].ok)
        => /\ stCurrentPath = ops[MaxOps].path
           /\ stFiles = ops[MaxOps].snap

(***************************************************************************)
(* Claims about the useApi hook and its components (checked under SpecHook)*)
(***************************************************************************)
\* the component's call succeeded with data and the component has resumed
\* after its await
SucceededWithData(c) ==
    /\ hkCall[c].pc = "resumed"
    /\ hkCall[c].outcome = "resolved"
    /\ JsTruthy(hkCall[c].value.data)

\* C23: when a call made through a useApi hook succeeds with data, the
\* component that awaited execute() acts on that data: DocumentUploader
\* appends the uploaded document to documents, Chat appends an assistant
\* message carrying the response after the user's message.
C23_ComponentActsOnData ==
    /\ SucceededWithData("DocumentUploader")
          => /\ documents # <<>>
             /\ documents[Len(documents)] = hkCall["DocumentUploader"].value.data
    /\ SucceededWithData("Chat")
          => /\ Len(messages) >= 2
             /\ messages[Len(messages) - 1] =
                   [role |-> "user", content |-> hkCall["Chat"].arg]
             /\ messages[Len(messages)] =
                   [role |-> "assistant", content |-> hkCall["Chat"].value.data]

\* the component's call failed with an HTTP error whose body carries a
\* detail, and execute has handled it
FailedWithDetail(c) ==
    /\ hkCall[c].pc \in {"settled", "resumed"}
    /\ hkCall[c].outcome = "rejected"
    /\ hkCall[c].axios.hasResponse
    /\ JsTruthy(hkCall[c].axios.detail)

\* C24: when a backend call made through a useApi hook fails with an HTTP
\* error whose body carries detail D, the hook's error.message is D, loading
\* is false again and the data held before the call is kept.
C24_ErrorDetailPassedThrough ==
    \A c \in Components :
        FailedWithDetail(c)
            => /\ hooks[c].error.message = hkCall[c].axios.detail
               /\ ~hooks[c].loading
               /\ hooks[c].data = hkCall[c].before.data


(***************************************************************************)
(* Claims about FileUploader.onDrop (checked under SpecDrop)               *)
(***************************************************************************)
\* seq is the beginning of other
IsPrefix(seq, other) ==
    /\ Len(seq) <= Len(other)
    /\ seq = SubSeq(other, 1, Len(seq))

\* the uploads of this drop that have succeeded
Uploaded == {k \in 1..Len(dzOutcomes) : dzOutcomes[k] = "ok"}

\* C25: the files of one drop are uploaded one at a time in the order given,
\* the next one only after the previous one has succeeded; the first failing
\* upload stops the batch (no later file is attempted, onUploadComplete is
\* not called, the files already uploaded stay uploaded); onUploadComplete
\* is called once when all have succeeded; in every case onDrop ends with
\* uploading = false and progress = 0.
C25_SequentialBatch ==
    /\ dzInFlight <= 1
    /\ IsPrefix(dzAttempts, dzFiles)
    /\ \A k \in 1..(Len(dzAttempts) - 1) :
          k <= Len(dzOutcomes) /\ dzOutcomes[k] = "ok"
    /\ dzPc # "ended" => dzCompleted = 0
    /\ dzPc = "ended" =>
          /\ ~uploading
          /\ progress = 0
          /\ Len(dzOutcomes) = Len(dzAttempts)
          /\ IF Uploaded = 1..Len(dzFiles) /\ dzFiles # <<>>
             THEN dzCompleted = 1
             ELSE dzCompleted = 0
          /\ Len(srvUploads) >= Cardinality(Uploaded)
          /\ \A k \in Uploaded :
                srvUploads[Len(srvUploads) - Cardinality(Uploaded) + k] = dzFiles[k]

\* a drop of three files whose second upload failed: the first file is
\* stored, the third was never posted
C25_Witness ==
    /\ dzPc = "ended"
    /\ Len(dzFiles) = 3
    /\ dzOutcomes = <<"ok", "failed">>
    /\ dzAttempts = SubSeq(dzFiles, 1, 2)
    /\ dzToast = "error"
    /\ srvUploads # <<>>

(***************************************************************************)
(* Claims about retryRequest (checked under SpecRetry)                     *)
(***************************************************************************)
\* the call of requestFn threw or returned a status of 500 or more
FailedAttempt(outcome) ==
    \/ outcome.kind = "throw"
    \/ outcome.kind = "response" /\ outcome.status >= 500

\* C26: retryRequest(requestFn, maxRetries) calls requestFn at most
\* maxRetries times, returns the first response whose status is below 500
\* without a further attempt, never returns a response with status >= 500,
\* and throws once maxRetries attempts have all thrown or returned a status
\* >= 500.
C26_RetryRequest ==
    /\ Len(rrLog) <= rrMax
    /\ \A k \in 1..(Len(rrLog) - 1) : FailedAttempt(rrLog[k])
    /\ rrResult.kind = "return" <=> rrPc = "returned"
    /\ rrPc = "returned" =>
          /\ rrLog # <<>>
          /\ rrResult = [rrLog[Len(rrLog)] EXCEPT !.kind = "return"]
          /\ rrLog[Len(rrLog)].kind = "response"
          /\ rrResult.status < 500
    /\ rrPc = "thrown" =>
          /\ rrResult.kind = "throw"
          /\ Len(rrLog) = rrMax
          /\ \A k \in 1..Len(rrLog) : FailedAttempt(rrLog[k])
    /\ (rrPc = "while" /\ Len(rrLog) = rrMax) =>
          /\ ENABLED ThrowAfterRetries
          /\ ~ENABLED Attempt
    /\ (rrPc = "while" /\ rrLog # <<>>) => FailedAttempt(rrLog[Len(rrLog)])

\* the first attempt returned 500, the second threw, the third returned 404,
\* which is what retryRequest returns
C26_Witness ==
    /\ rrPc = "returned"
    /\ rrMax = 3
    /\ Len(rrLog) = 3
    /\ rrLog[1].status = 500
    /\ rrLog[2].kind = "throw"
    /\ rrResult.status = 404

(***************************************************************************)
(* Claims about the RateLimiter (checked under SpecRate)                   *)
(***************************************************************************)
\* C10: for a client_id at most 100 requests are admitted within any
\* 60-second window, also when its requests are checked concurrently; here
\* for the window that starts with an admitted request.
C10_AtMostLimitPerWindow ==
    rlWinCount <= rate_limit

(***************************************************************************)
(* Claims about the middleware and the navigation (checked under SpecNav)  *)
(***************************************************************************)
\* the request carries a token: a cookie 'token' with a non-empty value
HasToken(token) == token # NoCookie /\ token # ""

\* p starts with one of the prefixes
BeginsWithOneOf(p, prefixes) ==
    \E pre \in prefixes : Len(pre) <= Len(p) /\ \A i \in 1..Len(pre) : p[i] = pre[i]

ProtectedPrefixes ==
    {<<"/", "dashboard">>, <<"/", "storage">>, <<"/", "settings">>, <<"/", "profile">>}

AuthPrefixes ==
    {<<"/", "login">>, <<"/", "register">>, <<"/", "forgot-password">>,
     <<"/", "reset-password">>}

\* C13: for every request the middleware handles, with token the 'token'
\* cookie (no token: the cookie is absent or empty) and p the pathname: without
\* a token and with p starting with /dashboard, /storage, /settings or /profile
\* the response is a redirect to /login with from = p; otherwise, with a token
\* and p starting with /login, /register, /forgot-password or /reset-password,
\* it is a redirect to /dashboard; otherwise the request passes through.  No
\* protected path is ever served to a request without a token.
C13_MiddlewareDecision ==
    /\ mwReq.matched =>
         LET p == mwReq.pathname
         IN  IF ~HasToken(mwReq.token) /\ BeginsWithOneOf(p, ProtectedPrefixes)
             THEN mwResp = [kind |-> "redirect", to |-> "/login", from |-> p]
             ELSE IF HasToken(mwReq.token) /\ BeginsWithOneOf(p, AuthPrefixes)
             THEN mwResp.kind = "redirect" /\ mwResp.to = "/dashboard"
             ELSE mwResp.kind = "next"
    /\ (mwPc = "served" /\ BeginsWithOneOf(Pathname(location), ProtectedPrefixes))
          => HasToken(cookieToken)

C13_Witness ==
    /\ mwReq.matched
    /\ mwReq.token = ""
    /\ mwReq.pathname = <<"/", "dashboard", "/", "files">>
    /\ mwResp = [kind |-> "redirect", to |-> "/login",
                  from |-> <<"/", "dashboard", "/", "files">>]
    /\ location = "/login"

\* C18: when a request through lib/api.ts receives a 401, the access token is
\* removed from localStorage, the browser is sent to /login, and the user
\* stays on /login until they log in again: the middleware does not bounce
\* the navigation back to /dashboard.
C18_StaysOnLoginAfter401 ==
    mwAfter401 => (localStorage["accessToken"] = Null /\ location = "/login")

(***************************************************************************)
(* Claims about the database (checked under SpecDb)                        *)
(***************************************************************************)
JobStatuses == {"pending", "processing", "completed", "failed"}

\* C11: every ai_jobs row has, at all times, a status that is one of pending,
\* processing, completed or failed; a job inserted without an explicit status
\* has status pending.
C11_JobStatusEnum ==
    \A j \in ai_jobs :
        /\ j.status \in JobStatuses
        /\ ~j.explicit => j.inserted = "pending"

\* the names of the permissions a role holds
PermissionsOf(role) ==
    {p.name : p \in {x \in permissions :
        \E r \in roles : r.name = role /\ <<r.id, x.id>> \in role_permissions}}

\* the names of the roles a user holds
RolesOf(username) ==
    {r.name : r \in {x \in roles :
        \E u \in users : u.username = username /\ <<u.id, x.id>> \in user_roles}}

\* C12: after init.sql has run on an empty database, admin holds every one of
\* the 18 seeded permissions, user holds exactly user:read, file:read,
\* file:write, file:delete, file:share, ai:process and api:access, the roles
\* ai_processor, storage_manager and analyst hold none, and the seeded user
\* admin holds the role admin.
C12_RolePermissionMatrix ==
    dbPc = "done" =>
        /\ Cardinality(permissions) = 18
        /\ PermissionsOf("admin") = {p.name : p \in permissions}
        /\ Cardinality(PermissionsOf("admin")) = 18
        /\ PermissionsOf("user") = {"user:read", "file:read", "file:write",
                                    "file:delete", "file:share", "ai:process",
                                    "api:access"}
        /\ \A role \in {"ai_processor", "storage_manager", "analyst"} :
              /\ \E r \in roles : r.name = role
              /\ PermissionsOf(role) = {}
        /\ "admin" \in RolesOf("admin")

C12_Witness ==
    /\ dbPc = "done"
    /\ Cardinality(role_permissions) = 25
    /\ Cardinality(user_roles) = 1
    /\ ai_jobs # {}

====
